---- MODULE Spec2Model ----
(***************************************************************************)
(* Verification model of telliott22/trading-bot.                           *)
(*                                                                         *)
(* The state machines that share this module:                              *)
(*   Spec        the smart-money trade path: SmartMoneyDetector's message  *)
(*               handler, AnomalyEngine, BaselineCalculator, AlertManager  *)
(*               and AlertStore, on the single-threaded event loop         *)
(*   SpecFeed    the same path fed with events whose fields may be missing *)
(*   SpecWs      the trade-stream socket lifecycle of SmartMoneyDetector   *)
(*   SpecOpp     the Opportunity state and the Leader Monitor              *)
(*   SpecMonitor the resolution checks with timer overlap and crashes      *)
(*   SpecScan    the discovery pipeline with its pair cache                *)
(*   SpecState   the Opportunity & Cache State, call by call               *)
(*   SpecStore   the TradeStore, call by call                              *)
(*   SpecStats   the Percentile Tracker, call by call                      *)
(*   SpecAlertStore  the Alert Store, call by call                         *)
(*   SpecHealth  the trade path with the HealthServer's GET handlers       *)
(*   SpecLifecycle   the socket lifecycle with start() and stop() called   *)
(*               as methods, stop() at any point of start()                *)
(*   SpecService the agent's periodic tasks as main() schedules them,      *)
(*               under fair scheduling                                     *)
(*                                                                         *)
(* Time is in milliseconds, as in the source.  A macrotask (one WebSocket  *)
(* message, one notifier response, one timer) runs to completion and is    *)
(* followed by the microtasks it queued, in FIFO order, before any other   *)
(* macrotask runs; every `await` suspends its async function and resumes   *)
(* it from the microtask queue.                                            *)
(***************************************************************************)
EXTENDS Integers, Sequences, FiniteSets, TLC

\* ------------------------------------------------------------------------
\* Bounds of the model
\* ------------------------------------------------------------------------
MaxTrades == 2          \* trade events received over a run
MaxBatch == 2           \* trade events in one WebSocket message
MaxTicks == 1           \* clock advances over a run
MaxAlertsPerHour == 2   \* config.maxAlertsPerHour, kept small (default 20)
MaxSockets == 3         \* WebSocket objects created over a run
MaxWsTicks == 4         \* advances of the socket clock over a run
MaxChecks == 2          \* checkLeaderResolutions calls in progress at once
MaxCrashes == 1         \* crashes of the agent process over a run
MaxScans == 3           \* discovery scans over a run
MaxDayTicks == 1        \* advances of the scan clock over a run
MaxCalls == 3           \* calls made on a component driven on its own
MaxStatCalls == 4       \* trades given to the Percentile Tracker driven on its own
maxSamples == 3         \* PercentileConfig.maxSamples the tracker is constructed with
minSamples == 2         \* PercentileConfig.minSamples the tracker is constructed with

\* ------------------------------------------------------------------------
\* Program constants (types.ts DEFAULT_CONFIG, alerts.ts, alert-store.ts)
\* ------------------------------------------------------------------------
largeTradeMin == 5000
largeTradeHigh == 10000
largeTradeCritical == 25000
volumeSpikeLow == 5
volumeSpikeHigh == 10
volumeSpikeCritical == 20
volumeSpikeWindowMs == 5 * 60 * 1000
priceWindowMs == 5 * 60 * 1000
priceChangeLowPct == 5        \* priceChangeLow 0.05, in percent
priceChangeHighPct == 10      \* priceChangeHigh 0.10, in percent
priceChangeCriticalPct == 20  \* priceChangeCritical 0.20, in percent
zScoreLow == 2
zScoreHigh == 3
baselineWindowMs == 24 * 60 * 60 * 1000
minSamplesForBaseline == 100
alertCooldownMs == 5 * 60 * 1000
oneHour == 60 * 60 * 1000
lowPriceThresholdPct == 25    \* lowPriceThreshold 0.25, in percent
mediumPercentilePct == 90     \* mediumPercentile 0.90, in percent
highPercentilePct == 95       \* highPercentile 0.95, in percent
criticalPercentilePct == 99   \* criticalPercentile 0.99, in percent
maxAlerts == 1000
reconnectDelayMs == 5000      \* setTimeout delay in the 'close' handler
connectTimeoutMs == 10000     \* setTimeout delay of connectWebSocket's timeout
NEAR_CERTAINTY_THRESHOLD == 90   \* 0.90, in percent
MIN_TIME_GAP_DAYS == 0
MIN_CONFIDENCE == 50   \* 0.5, in percent
MARKET_RETENTION_DAYS == 30
MIN_DAYS_TO_END == 7

Markets == {"m1", "m2"}

\* Values of --min-severity offered to the model: the default and one above it.
ConfiguredSeverities == {"MEDIUM", "HIGH"}

\* Clock advance offered to the scans, in days
DayStep == 80

\* Clock advances offered to the model: the cooldown, and just over one hour.
TickSteps == {alertCooldownMs, 61 * 60 * 1000}

\* Trade events offered to the model.  price is in percent of 1.00; pct is
\* the severity the market's Percentile Tracker reports for the trade's size
\* against the distribution it has accumulated (MarketStats.getPercentile).
TradeInputs ==
    { [side |-> "BUY",  price |-> 10, sizeUsd |-> 100,   pct |-> "NONE"],
      [side |-> "SELL", price |-> 11, sizeUsd |-> 5000,  pct |-> "NONE"],
      [side |-> "BUY",  price |-> 10, sizeUsd |-> 10000, pct |-> "HIGH"] }

WsEvents == { [marketId |-> m, in |-> i] : m \in Markets, i \in TradeInputs }

VARIABLES
    now,                  \* Date.now()
    ticks,                \* clock advances so far
    minSeverity,          \* config.minSeverity
    telegramConfigured,   \* TELEGRAM_BOT_TOKEN and TELEGRAM_CHAT_ID are set
    nextTradeId,          \* arrival number of the next trade event
    tradeStore,           \* TradeStore.windows: market -> trades, in insert order
    baselines,            \* BaselineCalculator.baselines: Map market -> baseline
    recentAlerts,         \* AlertManager.recentAlerts: Map key -> last alert time
    alertCount,           \* AlertManager.alertCount
    alertCountResetTime,  \* AlertManager.alertCountResetTime
    alertStore,           \* AlertStore.data.alerts, newest first
    totalAlerts,          \* AlertStore.data.totalAlerts
    inflight,             \* checkAnomalies calls suspended on the notifier's HTTP call
    received,             \* history: market of every trade event, in arrival order
    detected,             \* history: trade id -> anomalies checkAllAnomalies returned
    detectorLog,          \* history: market -> trade ids, in checkAllAnomalies call order
    baselineLog,          \* history: market -> trade ids, in updateBaseline call order
    handed,               \* history: anomalies passed to sendAnomalyAlert, in call order
    delivered,            \* history: alerts sent and stored, in delivery order
    failed                \* history: sends whose notifier call failed

tradeVars == <<now, ticks, minSeverity, telegramConfigured, nextTradeId, tradeStore,
               baselines, recentAlerts, alertCount, alertCountResetTime, alertStore,
               totalAlerts, inflight, received, detected, detectorLog, baselineLog,
               handed, delivered, failed>>

VARIABLES
    wsClock,              \* Date.now() of the socket lifecycle
    running,              \* SmartMoneyDetector.running
    started,              \* start() got past connectWebSocket: periodic tasks run
    process,              \* the Node process: "alive", "stopping", "crashed", "exited"
    sockets,              \* every WebSocket created, in creation order
    ws,                   \* SmartMoneyDetector.ws: index into sockets, 0 for null
    connectTimers,        \* sockets whose 10 s connection timeout is still pending
    reconnectTimers,      \* pending reconnect timers
    reconnectTimeout,     \* SmartMoneyDetector.reconnectTimeout: timer id, 0 for null
    nextTimer,            \* id of the next timer created
    monitoredMarkets,     \* keys of SmartMoneyDetector.monitoredMarkets
    closes,               \* history: times of 'close' events seen while running
    lastEvent             \* history: the last transport event handled

wsVars == <<wsClock, running, started, process, sockets, ws, connectTimers,
            reconnectTimers, reconnectTimeout, nextTimer, monitoredMarkets, closes,
            lastEvent>>

VARIABLES
    opportunities,        \* State.state.opportunities
    marketResolved,       \* leader markets Polymarket reports resolved or closed
    resolutionTask,       \* the running Monitor.checkLeaderResolutions calls
    thresholdTask,        \* a running Monitor.checkPriceThresholds call
    emitted,              \* history: the events handed to the Notifier
    crashes               \* history: per crash, the opportunities left unmarked

oppVars == <<opportunities, marketResolved, resolutionTask, thresholdTask, emitted, crashes>>

monitorVars == <<marketResolved, resolutionTask, thresholdTask, emitted, crashes>>

VARIABLES
    today,                \* Date.now(), in days
    dayTicks,             \* advances of today over a run
    scans,                \* scans completed
    seenMarkets,          \* State.state.cache.seenMarkets
    analyzedPairs,        \* State.state.cache.analyzedPairs
    scanTask,             \* the running scan
    pairLog,              \* history: what the last pair iteration of a scan did
    pairHistory           \* history: per pair, submitted / evaluated since its entry
                          \* was last purged, or purged and not evaluated since

scanVars == <<today, dayTicks, scans, seenMarkets, analyzedPairs, scanTask, pairLog,
              pairHistory>>

VARIABLES
    embeddings,           \* keys of State.state.cache.embeddings
    calls,                \* calls made on a component driven on its own
    lastCall              \* history: the last such call, its arguments and result

VARIABLES
    simulatedTime,        \* TradeStore.simulatedTime: <<>> for null, <<t>> when set
    addedTrades,          \* history: every trade handed to the TradeStore driven on its own
    statTrades,           \* MarketStats.trades of each market: the FIFO buffer
    lowPriceBuys,         \* MarketStats.lowPriceBuys of each market, ascending
    incomplete,           \* history: ids of the trade events that lacked a field
    alertStats,           \* AlertStore.data.stats and data.lastUpdated, as last stored
    startAt,              \* where start() stands: "idle", "fetch", "connect", "returned"
    leaderYesPrice        \* YES price (percent) the leader of each Opportunity reports now

componentVars == <<simulatedTime, addedTrades, statTrades, lowPriceBuys, incomplete, alertStats,
                  startAt, leaderYesPrice>>

unitVars == <<embeddings, calls, lastCall, componentVars>>

vars == <<tradeVars, wsVars, oppVars, scanVars, unitVars>>

\* ------------------------------------------------------------------------
\* The trade path
\* ------------------------------------------------------------------------
severityOrder == <<"LOW", "MEDIUM", "HIGH", "CRITICAL">>

indexOf(seq, x) == IF \E i \in 1..Len(seq) : seq[i] = x
                   THEN (CHOOSE i \in 1..Len(seq) : seq[i] = x) - 1
                   ELSE -1

\* variant: the severity filter lets every anomaly through
meetsMinSeverity_any(severity, min) == TRUE

meetsMinSeverity(severity, min) == indexOf(severityOrder, severity) >= indexOf(severityOrder, min)

\* --- small sequence helpers ------------------------------------------------
RECURSIVE SumSeq(_)
SumSeq(q) == IF q = <<>> THEN 0 ELSE Head(q) + SumSeq(Tail(q))

RECURSIVE SelectByTime(_, _)
SelectByTime(q, cutoff) ==
    IF q = <<>> THEN <<>>
    ELSE IF Head(q).timestamp >= cutoff
         THEN <<Head(q)>> \o SelectByTime(Tail(q), cutoff)
         ELSE SelectByTime(Tail(q), cutoff)

RECURSIVE SetToSeq(_)
SetToSeq(S) == IF S = {} THEN <<>>
               ELSE LET x == CHOOSE y \in S : \A z \in S : y <= z
                    IN <<x>> \o SetToSeq(S \ {x})

Abs(x) == IF x < 0 THEN -x ELSE x

\* Map.set(key, value) on a Map kept as a function on its keys
MapSet(map, key, value) == [k \in DOMAIN map \cup {key} |-> IF k = key THEN value ELSE map[k]]

\* --- TradeStore ------------------------------------------------------------
\* priceHistory is pushed, filtered and sorted together with trades, so it is
\* the (price, timestamp) projection of the same sequence.
cleanupMarket(store, marketId, t) ==
    [store EXCEPT ![marketId] = SelectByTime(@, t - baselineWindowMs)]

addTrade(store, trade, t) ==
    LET pushed == [store EXCEPT ![trade.marketId] = Append(@, trade)]
    IN IF Len(pushed[trade.marketId]) % 100 = 0
       THEN cleanupMarket(pushed, trade.marketId, t)
       ELSE pushed

getRecentTrades(store, marketId, durationMs, t) == SelectByTime(store[marketId], t - durationMs)

getVolumeInWindow(store, marketId, durationMs, t) ==
    LET r == getRecentTrades(store, marketId, durationMs, t)
    IN SumSeq([i \in 1..Len(r) |-> r[i].sizeUsd])

\* ok = FALSE stands for null; changePercent is change / start, compared by
\* the detector without division.
getPriceChangeInWindow(store, marketId, durationMs, t) ==
    LET recentPrices == SelectByTime(store[marketId], t - durationMs)
    IN IF Len(recentPrices) < 2 THEN [ok |-> FALSE]
       ELSE [ok |-> TRUE,
             start |-> recentPrices[1].price,
             end |-> recentPrices[Len(recentPrices)].price,
             change |-> recentPrices[Len(recentPrices)].price - recentPrices[1].price]

\* --- BaselineCalculator ----------------------------------------------------
\* Standard deviations are kept as variances (their squares): the code only
\* tests them for zero and compares z-scores with thresholds.
mean(values) == IF Len(values) = 0 THEN 0 ELSE SumSeq(values) \div Len(values)

variance(values, m) ==
    IF Len(values) < 2 THEN 0
    ELSE mean([i \in 1..Len(values) |-> (values[i] - m) * (values[i] - m)])

getHourlyVolumes(trades) ==
    LET keys == SetToSeq({trades[i].timestamp \div oneHour : i \in 1..Len(trades)})
    IN [k \in 1..Len(keys) |->
          SumSeq([i \in 1..Len(trades) |->
                    IF trades[i].timestamp \div oneHour = keys[k] THEN trades[i].sizeUsd ELSE 0])]

calculateHourlyPriceChanges(trades) ==
    IF Len(trades) < 2 THEN <<>>
    ELSE LET keys == SetToSeq({trades[i].timestamp \div oneHour : i \in 1..Len(trades)})
             inHour(k) == {i \in 1..Len(trades) : trades[i].timestamp \div oneHour = keys[k]}
             first(k) == CHOOSE i \in inHour(k) : \A j \in inHour(k) : i <= j
             last(k) == CHOOSE i \in inHour(k) : \A j \in inHour(k) : i >= j
         IN [k \in 1..Len(keys) |-> trades[last(k)].price - trades[first(k)].price]

updateBaseline(bl, marketId, trades, t) ==
    IF Len(trades) = 0 THEN bl
    ELSE LET windowTrades == SelectByTime(trades, t - baselineWindowMs)
         IN IF Len(windowTrades) = 0 THEN bl
            ELSE LET tradeSizes == [i \in 1..Len(windowTrades) |-> windowTrades[i].sizeUsd]
                     avgTradeSize == mean(tradeSizes)
                     windowHours == baselineWindowMs \div oneHour
                     avgVolumePerHour == SumSeq(tradeSizes) \div windowHours
                     changes == calculateHourlyPriceChanges(windowTrades)
                     absChanges == [i \in 1..Len(changes) |-> Abs(changes[i])]
                     baseline ==
                       [avgVolumePerHour |-> avgVolumePerHour,
                        varVolumePerHour |-> variance(getHourlyVolumes(windowTrades), avgVolumePerHour),
                        avgTradeSize |-> avgTradeSize,
                        varTradeSize |-> variance(tradeSizes, avgTradeSize),
                        avgPriceChangePerHour |-> mean(absChanges),
                        varPriceChangePerHour |-> variance(absChanges, mean(absChanges)),
                        sampleCount |-> Len(windowTrades)]
                 IN MapSet(bl, marketId, baseline)

isBaselineReady(bl, marketId) ==
    IF marketId \notin DOMAIN bl THEN FALSE
    ELSE bl[marketId].sampleCount >= minSamplesForBaseline

\* z >= k for z = diff / stddev, with the variance in place of stddev.
zAtLeast(diff, var, k) == diff >= 0 /\ diff * diff >= k * k * var

\* getTradeSizeZScore(...) is not null and >= k
tradeSizeZAtLeast(bl, marketId, tradeSize, k) ==
    /\ marketId \in DOMAIN bl
    /\ bl[marketId].varTradeSize # 0
    /\ zAtLeast(tradeSize - bl[marketId].avgTradeSize, bl[marketId].varTradeSize, k)

\* getPriceChangeZScore(...) is not null and >= k (priceChange in percent points)
priceChangeZAtLeast(bl, marketId, priceChange, k) ==
    /\ marketId \in DOMAIN bl
    /\ bl[marketId].varPriceChangePerHour # 0
    /\ zAtLeast(Abs(priceChange) - bl[marketId].avgPriceChangePerHour,
                bl[marketId].varPriceChangePerHour, k)

\* getVolumeZScore(...) is not null and >= k; windowHours = windowMs / 1h, so
\* both sides are multiplied by 1h / windowMs.
volumeZAtLeast(bl, marketId, observedVolume, windowMs, k) ==
    /\ marketId \in DOMAIN bl
    /\ bl[marketId].varVolumePerHour # 0
    /\ zAtLeast(observedVolume * (oneHour \div windowMs) - bl[marketId].avgVolumePerHour,
                bl[marketId].varVolumePerHour, k)

\* getVolumeMultiple(...) is not null and >= k
volumeMultipleAtLeast(bl, marketId, observedVolume, windowMs, k) ==
    /\ marketId \in DOMAIN bl
    /\ bl[marketId].avgVolumePerHour # 0
    /\ observedVolume * (oneHour \div windowMs) >= k * bl[marketId].avgVolumePerHour

\* --- the five queries' null results ---------------------------------------
\* getTradeSizeZScore(marketId, _) returns null
tradeSizeZScoreIsNull(bl, marketId) ==
    IF marketId \notin DOMAIN bl THEN TRUE ELSE bl[marketId].varTradeSize = 0

\* getVolumeZScore(marketId, _, _) returns null
volumeZScoreIsNull(bl, marketId) ==
    IF marketId \notin DOMAIN bl THEN TRUE ELSE bl[marketId].varVolumePerHour = 0

\* getPriceChangeZScore(marketId, _) returns null
priceChangeZScoreIsNull(bl, marketId) ==
    IF marketId \notin DOMAIN bl THEN TRUE ELSE bl[marketId].varPriceChangePerHour = 0

\* getExpectedVolume(marketId, _) returns null
expectedVolumeIsNull(bl, marketId) == marketId \notin DOMAIN bl

\* getVolumeMultiple(marketId, _, _) returns null: no expected volume, or 0
volumeMultipleIsNull(bl, marketId) ==
    IF expectedVolumeIsNull(bl, marketId) THEN TRUE ELSE bl[marketId].avgVolumePerHour = 0

\* --- AnomalyEngine ---------------------------------------------------------
NoAnomaly == <<>>

\* timestamp is trade.timestamp or Date.now(); the two coincide because the
\* events carry no timestamp of their own and a trade is stamped on receipt.
Anomaly(type, trade, severity) ==
    <<[type |-> type, marketId |-> trade.marketId, severity |-> severity,
       timestamp |-> trade.timestamp, tradeId |-> trade.id]>>

\* MarketStats.shouldAlert with the tracker's verdict trade.pct for the size
checkTrade(trade) ==
    IF trade.side # "BUY" \/ trade.price >= lowPriceThresholdPct THEN "NONE" ELSE trade.pct

detectUnusualLowPriceBuy(trade) ==
    IF trade.side # "BUY" THEN NoAnomaly
    ELSE IF checkTrade(trade) \in {"CRITICAL", "HIGH", "MEDIUM"}
         THEN Anomaly("UNUSUAL_LOW_PRICE_BUY", trade, checkTrade(trade))
         ELSE NoAnomaly

detectLargeTrade(trade, bl) ==
    IF trade.sizeUsd < largeTradeMin THEN NoAnomaly
    ELSE LET hasStatisticalSignificance ==
                 tradeSizeZAtLeast(bl, trade.marketId, trade.sizeUsd, zScoreLow)
             severity ==
                 IF trade.sizeUsd >= largeTradeCritical THEN "CRITICAL"
                 ELSE IF trade.sizeUsd >= largeTradeHigh THEN "HIGH"
                 ELSE IF hasStatisticalSignificance
                         /\ tradeSizeZAtLeast(bl, trade.marketId, trade.sizeUsd, zScoreHigh)
                      THEN "HIGH"
                 ELSE "MEDIUM"
         IN Anomaly("LARGE_TRADE", trade, severity)

detectVolumeSpike(trade, store, bl, t) ==
    IF ~isBaselineReady(bl, trade.marketId) THEN NoAnomaly
    ELSE LET recentVolume == getVolumeInWindow(store, trade.marketId, volumeSpikeWindowMs, t)
             atLeast(k) == volumeMultipleAtLeast(bl, trade.marketId, recentVolume, volumeSpikeWindowMs, k)
         IN IF ~atLeast(volumeSpikeLow) THEN NoAnomaly
            ELSE Anomaly("VOLUME_SPIKE", trade,
                         IF atLeast(volumeSpikeCritical) THEN "CRITICAL"
                         ELSE IF atLeast(volumeSpikeHigh) THEN "HIGH"
                         ELSE IF volumeZAtLeast(bl, trade.marketId, recentVolume,
                                                volumeSpikeWindowMs, zScoreHigh) THEN "HIGH"
                         ELSE "MEDIUM")

detectRapidPriceMove(trade, store, bl, t) ==
    LET priceChange == getPriceChangeInWindow(store, trade.marketId, priceWindowMs, t)
    IN IF ~priceChange.ok THEN NoAnomaly
       ELSE LET \* absChange >= k percent, absChange = |change / start| (0 if start = 0)
                atLeast(k) == IF priceChange.start > 0
                              THEN Abs(priceChange.change) * 100 >= k * priceChange.start
                              ELSE 0 >= k
            IN IF ~atLeast(priceChangeLowPct) THEN NoAnomaly
               ELSE Anomaly("RAPID_PRICE_MOVE", trade,
                            IF atLeast(priceChangeCriticalPct) THEN "CRITICAL"
                            ELSE IF atLeast(priceChangeHighPct) THEN "HIGH"
                            ELSE IF priceChangeZAtLeast(bl, trade.marketId,
                                                        priceChange.change, zScoreHigh) THEN "HIGH"
                            ELSE "MEDIUM")

\* variant: the Large Trade detector runs before the Unusual Low-Price Buy one
checkAllAnomalies_largeTradeFirst(trade, store, bl, t) ==
    detectLargeTrade(trade, bl)
      \o detectUnusualLowPriceBuy(trade)
      \o detectVolumeSpike(trade, store, bl, t)
      \o detectRapidPriceMove(trade, store, bl, t)

checkAllAnomalies(trade, store, bl, t) ==
    detectUnusualLowPriceBuy(trade)
      \o detectLargeTrade(trade, bl)
      \o detectVolumeSpike(trade, store, bl, t)
      \o detectRapidPriceMove(trade, store, bl, t)

\* --- The detector's state as one value, for the handlers below -------------
\* microQ is the microtask queue; it is empty between macrotasks.
St ==
    [now |-> now, minSeverity |-> minSeverity, telegramConfigured |-> telegramConfigured,
     nextTradeId |-> nextTradeId, tradeStore |-> tradeStore, baselines |-> baselines,
     recentAlerts |-> recentAlerts, alertCount |-> alertCount,
     alertCountResetTime |-> alertCountResetTime, alertStore |-> alertStore,
     totalAlerts |-> totalAlerts, inflight |-> inflight, received |-> received,
     detected |-> detected,
     detectorLog |-> detectorLog, baselineLog |-> baselineLog, handed |-> handed,
     delivered |-> delivered, failed |-> failed, microQ |-> <<>>]

InstallDetector(s) ==
    /\ nextTradeId' = s.nextTradeId
    /\ tradeStore' = s.tradeStore
    /\ baselines' = s.baselines
    /\ recentAlerts' = s.recentAlerts
    /\ alertCount' = s.alertCount
    /\ alertCountResetTime' = s.alertCountResetTime
    /\ alertStore' = s.alertStore
    /\ totalAlerts' = s.totalAlerts
    /\ inflight' = s.inflight
    /\ received' = s.received
    /\ detected' = s.detected
    /\ detectorLog' = s.detectorLog
    /\ baselineLog' = s.baselineLog
    /\ handed' = s.handed
    /\ delivered' = s.delivered
    /\ failed' = s.failed
    /\ UNCHANGED <<now, ticks, minSeverity, telegramConfigured, wsVars, oppVars, scanVars>>

Install(s) == InstallDetector(s) /\ UNCHANGED unitVars

\* an await resumes its function from the microtask queue
Enqueue(s, kind, task) == [s EXCEPT !.microQ = Append(@, [kind |-> kind, task |-> task])]

\* --- AlertStore ------------------------------------------------------------
\* variant: the list is cut at its head, so that the alert just added is lost
addAlert_trimsNewest(s, anomaly) ==
    LET alert == [id |-> <<anomaly.marketId, anomaly.type, anomaly.timestamp>>,
                  type |-> anomaly.type, marketId |-> anomaly.marketId,
                  severity |-> anomaly.severity, timestamp |-> anomaly.timestamp]
        unshifted == <<alert>> \o s.alertStore
    IN [s EXCEPT !.alertStore = IF Len(unshifted) > maxAlerts
                                THEN SubSeq(unshifted, 2, maxAlerts + 1)
                                ELSE unshifted,
                 !.totalAlerts = @ + 1]

addAlert(s, anomaly) ==
    LET alert == [id |-> <<anomaly.marketId, anomaly.type, anomaly.timestamp>>,
                  type |-> anomaly.type, marketId |-> anomaly.marketId,
                  severity |-> anomaly.severity, timestamp |-> anomaly.timestamp]
        unshifted == <<alert>> \o s.alertStore
    IN [s EXCEPT !.alertStore = IF Len(unshifted) > maxAlerts
                                THEN SubSeq(unshifted, 1, maxAlerts)
                                ELSE unshifted,
                 !.totalAlerts = @ + 1]

\* --- AlertManager ----------------------------------------------------------
alertKey(anomaly) == <<anomaly.marketId, anomaly.type>>

resetAlertCountIfNeeded(s) ==
    IF s.now - s.alertCountResetTime > oneHour
    THEN [s EXCEPT !.alertCount = 0, !.alertCountResetTime = s.now]
    ELSE s

\* sendRaw up to its first await: without Telegram credentials it logs and
\* returns; with them the checkAnomalies call stays suspended on fetch().
sendRaw(s, task) ==
    IF ~s.telegramConfigured
    THEN Enqueue(s, "sendRawResolved", task)
    ELSE [s EXCEPT !.inflight = @ \cup {task}]

\* sendAnomalyAlert up to its first await.  task.cur is the anomaly;
\* task.counterAtAwait is history: alertCount when the call suspends.
sendAnomalyAlert(s, task) ==
    LET key == alertKey(task.cur)
        s0 == [s EXCEPT !.handed = Append(@, task.cur)]
        lastAlert == IF key \in DOMAIN s0.recentAlerts THEN s0.recentAlerts[key] ELSE 0
    IN IF lastAlert # 0 /\ s0.now - lastAlert < alertCooldownMs
       THEN Enqueue(s0, "sendAnomalyAlertReturned", task)
       ELSE LET s1 == resetAlertCountIfNeeded(s0)
            IN IF s1.alertCount >= MaxAlertsPerHour
               THEN Enqueue(s1, "sendAnomalyAlertReturned", task)
               ELSE sendRaw(s1, [task EXCEPT !.counterAtAwait = s1.alertCount])

\* sendAnomalyAlert after `await this.sendRaw(message)` returned
onSendRawResolved(s, task) ==
    LET stored == addAlert(s, task.cur)
    IN Enqueue([stored EXCEPT
                  !.recentAlerts = MapSet(@, alertKey(task.cur), s.now),
                  !.alertCount = @ + 1,
                  !.delivered = Append(@, [anomaly |-> task.cur, at |-> s.now])],
               "sendAnomalyAlertReturned", task)

\* variant: the catch block records the failed attempt as the key's last alert
onSendRawRejected_marksDedup(s, task) ==
    Enqueue([s EXCEPT !.recentAlerts = MapSet(@, alertKey(task.cur), s.now),
                      !.failed = @ \cup {[anomaly |-> task.cur, at |-> s.now,
                                           counterAtCall |-> task.counterAtCall,
                                           counterAtAwait |-> task.counterAtAwait]}],
            "sendAnomalyAlertReturned", task)

\* sendAnomalyAlert's catch block, after sendRaw threw
onSendRawRejected(s, task) ==
    Enqueue([s EXCEPT !.failed = @ \cup {[anomaly |-> task.cur, at |-> s.now,
                                           counterAtCall |-> task.counterAtCall,
                                           counterAtAwait |-> task.counterAtAwait]}],
            "sendAnomalyAlertReturned", task)

\* --- SmartMoneyDetector: the trade path ------------------------------------
\* variant: the baseline is updated after the loop whatever the loop found
afterAnomalyLoop_always(s, trade, hasAnomaly) ==
    [s EXCEPT !.baselines = updateBaseline(@, trade.marketId, <<trade>>, s.now),
              !.baselineLog[trade.marketId] = Append(@, trade.id)]

\* checkAnomalies after its loop
afterAnomalyLoop(s, trade, hasAnomaly) ==
    IF ~hasAnomaly
    THEN [s EXCEPT !.baselines = updateBaseline(@, trade.marketId, <<trade>>, s.now),
                   !.baselineLog[trade.marketId] = Append(@, trade.id)]
    ELSE s

\* checkAnomalies' for loop from the anomalies still to visit, up to the next
\* await.  counterAtCall is history: alertCount when sendAnomalyAlert is called.
RECURSIVE anomalyLoop(_, _, _, _)
anomalyLoop(s, trade, anomalies, hasAnomaly) ==
    IF anomalies = <<>> THEN afterAnomalyLoop(s, trade, hasAnomaly)
    ELSE IF ~meetsMinSeverity(Head(anomalies).severity, s.minSeverity)
         THEN anomalyLoop(s, trade, Tail(anomalies), hasAnomaly)
         ELSE sendAnomalyAlert(s, [trade |-> trade, cur |-> Head(anomalies),
                                   rest |-> Tail(anomalies),
                                   counterAtCall |-> s.alertCount,
                                   counterAtAwait |-> s.alertCount])

checkAnomalies(s, trade) ==
    LET anomalies == checkAllAnomalies(trade, s.tradeStore, s.baselines, s.now)
    IN anomalyLoop([s EXCEPT !.detected = MapSet(@, trade.id, anomalies),
                             !.detectorLog[trade.marketId] = Append(@, trade.id)],
                   trade, anomalies, FALSE)

\* handleTradeEvent for an event of a monitored market; checkAnomalies is
\* called without await, so the handler returns at its first await.
handleTradeEvent(s, event) ==
    LET trade == [id |-> s.nextTradeId, marketId |-> event.marketId,
                  price |-> event.in.price, sizeUsd |-> event.in.sizeUsd,
                  side |-> event.in.side, pct |-> event.in.pct, timestamp |-> s.now]
    IN checkAnomalies([s EXCEPT !.nextTradeId = @ + 1,
                                !.tradeStore = addTrade(@, trade, s.now)],
                      trade)

\* one microtask
runMicrotask(s, e) ==
    CASE e.kind = "sendRawResolved" -> onSendRawResolved(s, e.task)
      [] e.kind = "sendRawRejected" -> onSendRawRejected(s, e.task)
      [] e.kind = "sendAnomalyAlertReturned" -> anomalyLoop(s, e.task.trade, e.task.rest, TRUE)

\* the microtask queue is run to empty after every macrotask
RECURSIVE drainMicrotasks(_)
drainMicrotasks(s) ==
    IF s.microQ = <<>> THEN s
    ELSE drainMicrotasks(runMicrotask([s EXCEPT !.microQ = Tail(@)], Head(s.microQ)))

\* handleWsMessage for a message carrying the trade events `events`
RECURSIVE handleEvents(_, _)
handleEvents(s, events) ==
    IF events = <<>> THEN s
    ELSE handleEvents(handleTradeEvent(s, Head(events)), Tail(events))

handleWsMessage(s, events) == drainMicrotasks(handleEvents(s, events))

\* --- Actions of the trade path ---------------------------------------------
TradeFresh ==
    /\ now = oneHour
    /\ ticks = 0
    /\ nextTradeId = 1
    /\ tradeStore = [m \in Markets |-> <<>>]
    /\ baselines = <<>>
    /\ recentAlerts = <<>>
    /\ alertCount = 0
    /\ alertCountResetTime = now
    /\ alertStore = <<>>
    /\ totalAlerts = 0
    /\ inflight = {}
    /\ received = <<>>
    /\ detected = <<>>
    /\ detectorLog = [m \in Markets |-> <<>>]
    /\ baselineLog = [m \in Markets |-> <<>>]
    /\ handed = <<>>
    /\ delivered = <<>>
    /\ failed = {}

InitTrade ==
    /\ minSeverity \in ConfiguredSeverities
    /\ telegramConfigured \in BOOLEAN
    /\ TradeFresh

\* the trade path at rest, for the runs of the other two state machines
TradeIdle ==
    /\ minSeverity = "MEDIUM"
    /\ telegramConfigured = FALSE
    /\ TradeFresh

\* a WebSocket message with one trade event or an array of them
WsMessage ==
    \E n \in 1..MaxBatch :
        /\ nextTradeId + n - 1 <= MaxTrades
        /\ \E events \in [1..n -> WsEvents] :
              Install(handleWsMessage(
                  [St EXCEPT !.received = @ \o [i \in 1..n |-> events[i].marketId]],
                  events))

\* the Telegram call of a suspended send returns ok
NotifierOk ==
    \E task \in inflight :
        Install(drainMicrotasks(Enqueue([St EXCEPT !.inflight = @ \ {task}],
                                        "sendRawResolved", task)))

\* the Telegram call of a suspended send fails (network error or ok: false)
NotifierFails ==
    \E task \in inflight :
        Install(drainMicrotasks(Enqueue([St EXCEPT !.inflight = @ \ {task}],
                                        "sendRawRejected", task)))

\* the five-minute stats log calls AlertManager.getStats
LogStats ==
    /\ now - alertCountResetTime > oneHour
    /\ Install(resetAlertCountIfNeeded(St))

Tick ==
    /\ ticks < MaxTicks
    /\ \E d \in TickSteps : now' = now + d
    /\ ticks' = ticks + 1
    /\ UNCHANGED <<minSeverity, telegramConfigured, nextTradeId, tradeStore, baselines,
                   recentAlerts, alertCount, alertCountResetTime, alertStore, totalAlerts,
                   inflight, received, detected, detectorLog, baselineLog, handed,
                   delivered, failed, wsVars, oppVars, scanVars, unitVars>>

NextTrade == WsMessage \/ NotifierOk \/ NotifierFails \/ LogStats \/ Tick

\* ------------------------------------------------------------------------
\* The trade-stream socket lifecycle (SmartMoneyDetector)
\* ------------------------------------------------------------------------
\* yesTokenId and noTokenId of the markets ms
Tokens(ms) == { <<m, o>> : m \in ms, o \in {"YES", "NO"} }

Alive == process \in {"alive", "stopping"}

\* the body of connectWebSocket's Promise executor: a new socket becomes
\* this.ws, its promise is pending and its connection timeout is armed
connectWebSocket ==
    /\ sockets' = Append(sockets, [state |-> "CONNECTING", createdAt |-> wsClock,
                                   subscribed |-> {}, monitoredAtOpen |-> {},
                                   promise |-> "pending"])
    /\ ws' = Len(sockets) + 1
    /\ connectTimers' = connectTimers \cup {Len(sockets) + 1}

InitWs ==
    /\ wsClock = 0
    /\ running = FALSE
    /\ started = FALSE
    /\ process = "alive"
    /\ sockets = <<>>
    /\ ws = 0
    /\ connectTimers = {}
    /\ reconnectTimers = {}
    /\ reconnectTimeout = 0
    /\ nextTimer = 1
    /\ monitoredMarkets = {}
    /\ closes = {}
    /\ lastEvent = "none"

\* start() up to `await this.connectWebSocket()`; filtered is what the market
\* filter kept of the fetched markets
Start ==
    \E filtered \in SUBSET Markets :
        /\ process = "alive"
        /\ ~running
        /\ sockets = <<>>
        /\ running' = TRUE
        /\ lastEvent' = "start"
        /\ IF filtered = {}
           THEN UNCHANGED <<sockets, ws, connectTimers, monitoredMarkets>>
           ELSE /\ monitoredMarkets' = filtered
                /\ connectWebSocket
        /\ UNCHANGED <<wsClock, started, process, reconnectTimers, reconnectTimeout,
                       nextTimer, closes, tradeVars, oppVars, scanVars, unitVars>>

\* the 'open' handler of socket k: subscribe through this.ws, resolve the
\* promise; start() resumes if it awaits this promise
SocketOpen ==
    \E k \in 1..Len(sockets) :
        /\ Alive
        /\ sockets[k].state = "CONNECTING"
        /\ LET opened == [sockets EXCEPT ![k].state = "OPEN",
                                         ![k].monitoredAtOpen = monitoredMarkets]
               sendThrows == ws # 0 /\ opened[ws].state # "OPEN" /\ monitoredMarkets # {}
               sent == IF ws = 0 \/ sendThrows THEN opened
                       ELSE [opened EXCEPT ![ws].subscribed = @ \cup Tokens(monitoredMarkets)]
           IN IF sendThrows
              THEN /\ sockets' = sent
                   /\ process' = "crashed"
                   /\ UNCHANGED started
              ELSE /\ sockets' = [sent EXCEPT ![k].promise =
                                      IF @ = "pending" THEN "resolved" ELSE @]
                   /\ started' = (started \/ (k = 1 /\ sockets[k].promise = "pending"))
                   /\ UNCHANGED process
        /\ lastEvent' = "open"
        /\ UNCHANGED <<wsClock, running, ws, connectTimers, reconnectTimers,
                       reconnectTimeout, nextTimer, monitoredMarkets, closes,
                       tradeVars, oppVars, scanVars, unitVars>>

\* an 'error' handler that schedules a reconnect as the 'close' handler does
SocketError_reconnects ==
    \E k \in 1..Len(sockets) :
        /\ Alive
        /\ sockets[k].state \in {"CONNECTING", "OPEN"}
        /\ sockets' = [sockets EXCEPT ![k].state = "CLOSING"]
        /\ lastEvent' = "error"
        /\ IF running
           THEN /\ reconnectTimers' = reconnectTimers \cup
                       {[id |-> nextTimer, due |-> wsClock + reconnectDelayMs]}
                /\ reconnectTimeout' = nextTimer
                /\ nextTimer' = nextTimer + 1
           ELSE UNCHANGED <<reconnectTimers, reconnectTimeout, nextTimer>>
        /\ UNCHANGED <<wsClock, running, started, process, ws, connectTimers,
                       monitoredMarkets, closes, tradeVars, oppVars, scanVars, unitVars>>

\* the 'error' handler of socket k only logs; the socket goes on to close
SocketError ==
    \E k \in 1..Len(sockets) :
        /\ Alive
        /\ sockets[k].state \in {"CONNECTING", "OPEN"}
        /\ sockets' = [sockets EXCEPT ![k].state = "CLOSING"]
        /\ lastEvent' = "error"
        /\ UNCHANGED <<wsClock, running, started, process, ws, connectTimers,
                       reconnectTimers, reconnectTimeout, nextTimer, monitoredMarkets,
                       closes, tradeVars, oppVars, scanVars, unitVars>>

\* the 'close' handler of socket k: if running, schedule connectWebSocket
SocketClose ==
    \E k \in 1..Len(sockets) :
        /\ Alive
        /\ sockets[k].state \in {"OPEN", "CLOSING"}
        /\ sockets' = [sockets EXCEPT ![k].state = "CLOSED"]
        /\ lastEvent' = "close"
        /\ IF running
           THEN /\ reconnectTimers' = reconnectTimers \cup
                       {[id |-> nextTimer, due |-> wsClock + reconnectDelayMs]}
                /\ reconnectTimeout' = nextTimer
                /\ nextTimer' = nextTimer + 1
                /\ closes' = closes \cup {wsClock}
           ELSE UNCHANGED <<reconnectTimers, reconnectTimeout, nextTimer, closes>>
        /\ UNCHANGED <<wsClock, running, started, process, ws, connectTimers,
                       monitoredMarkets, tradeVars, oppVars, scanVars, unitVars>>

\* the reconnect timer's callback: connectWebSocket(), its promise dropped
ReconnectTimerFires ==
    \E t \in reconnectTimers :
        /\ Alive
        /\ t.due <= wsClock
        /\ Len(sockets) < MaxSockets
        /\ reconnectTimers' = reconnectTimers \ {t}
        /\ connectWebSocket
        /\ lastEvent' = "reconnect"
        /\ UNCHANGED <<wsClock, running, started, process, reconnectTimeout, nextTimer,
                       monitoredMarkets, closes, tradeVars, oppVars, scanVars, unitVars>>

\* the connection timeout of socket k: reject if this.ws is not OPEN.  The
\* promise of the first socket is awaited by start(), whose failure ends the
\* process in main(); the promise of a reconnect has no handler, and what an
\* unhandled rejection does depends on the Node.js version.
ConnectTimerFires ==
    \E k \in connectTimers :
        /\ Alive
        /\ sockets[k].createdAt + connectTimeoutMs <= wsClock
        /\ connectTimers' = connectTimers \ {k}
        /\ IF (ws = 0 \/ sockets[ws].state # "OPEN") /\ sockets[k].promise = "pending"
           THEN /\ sockets' = [sockets EXCEPT ![k].promise = "rejected"]
                /\ lastEvent' = "timeout"
                /\ IF k = 1 THEN process' = "exited"
                   ELSE process' \in {process, "crashed"}
           ELSE UNCHANGED <<sockets, lastEvent, process>>
        /\ UNCHANGED <<wsClock, running, started, ws, reconnectTimers, reconnectTimeout,
                       nextTimer, monitoredMarkets, closes, tradeVars, oppVars, scanVars, unitVars>>

\* handleWsMessage on a frame that is not JSON: the parse error is swallowed
NonJsonFrame ==
    /\ Alive
    /\ \E k \in 1..Len(sockets) : sockets[k].state = "OPEN"
    /\ lastEvent' = "nonjson"
    /\ UNCHANGED <<wsClock, running, started, process, sockets, ws, connectTimers,
                   reconnectTimers, reconnectTimeout, nextTimer, monitoredMarkets,
                   closes, tradeVars, oppVars, scanVars, unitVars>>

\* handleWsMessage on a trade frame: handleTradeEvent takes over (the trade path)
TradeFrame ==
    /\ Alive
    /\ \E k \in 1..Len(sockets) : sockets[k].state = "OPEN"
    /\ lastEvent' = "trade"
    /\ UNCHANGED <<wsClock, running, started, process, sockets, ws, connectTimers,
                   reconnectTimers, reconnectTimeout, nextTimer, monitoredMarkets,
                   closes, tradeVars, oppVars, scanVars, unitVars>>

\* a refreshMarkets that adds the new markets and leaves the subscribing to
\* the next 'open' handler
RefreshMarkets_noSubscribe ==
    \E filtered \in SUBSET Markets :
        LET newMarkets == filtered \ monitoredMarkets
        IN /\ Alive
           /\ started
           /\ newMarkets # {}
           /\ monitoredMarkets' = monitoredMarkets \cup newMarkets
           /\ lastEvent' = "refresh"
           /\ UNCHANGED <<wsClock, running, started, process, sockets, ws, connectTimers,
                          reconnectTimers, reconnectTimeout, nextTimer, closes,
                          tradeVars, oppVars, scanVars, unitVars>>

\* refreshMarkets after its fetch: add the new markets, subscribe if OPEN
RefreshMarkets ==
    \E filtered \in SUBSET Markets :
        LET newMarkets == filtered \ monitoredMarkets
        IN /\ Alive
           /\ started
           /\ newMarkets # {}
           /\ monitoredMarkets' = monitoredMarkets \cup newMarkets
           /\ sockets' = IF ws # 0 /\ sockets[ws].state = "OPEN"
                         THEN [sockets EXCEPT ![ws].subscribed = @ \cup Tokens(newMarkets)]
                         ELSE sockets
           /\ lastEvent' = "refresh"
           /\ UNCHANGED <<wsClock, running, started, process, ws, connectTimers,
                          reconnectTimers, reconnectTimeout, nextTimer, closes,
                          tradeVars, oppVars, scanVars, unitVars>>

\* stop(), called by the signal handlers main() installs after start()
Stop ==
    /\ process = "alive"
    /\ running
    /\ IF sockets = <<>> THEN TRUE ELSE sockets[1].promise # "pending"
    /\ running' = FALSE
    /\ process' = "stopping"
    /\ reconnectTimers' = {t \in reconnectTimers : t.id # reconnectTimeout}
    /\ reconnectTimeout' = 0
    /\ sockets' = IF ws # 0 /\ sockets[ws].state \in {"CONNECTING", "OPEN"}
                  THEN [sockets EXCEPT ![ws].state = "CLOSING"]
                  ELSE sockets
    /\ ws' = 0
    /\ lastEvent' = "stop"
    /\ UNCHANGED <<wsClock, started, connectTimers, nextTimer, monitoredMarkets,
                   closes, tradeVars, oppVars, scanVars, unitVars>>

\* process.exit(0) at the end of a signal handler
ProcessExit ==
    /\ process = "stopping"
    /\ process' = "exited"
    /\ UNCHANGED <<wsClock, running, started, sockets, ws, connectTimers,
                   reconnectTimers, reconnectTimeout, nextTimer, monitoredMarkets,
                   closes, lastEvent, tradeVars, oppVars, scanVars, unitVars>>

\* time passes; a live process runs its due timers first
TickWs ==
    /\ wsClock < MaxWsTicks * reconnectDelayMs
    /\ Alive => /\ \A t \in reconnectTimers : t.due > wsClock
                /\ \A k \in connectTimers : sockets[k].createdAt + connectTimeoutMs > wsClock
    /\ wsClock' = wsClock + reconnectDelayMs
    /\ UNCHANGED <<running, started, process, sockets, ws, connectTimers,
                   reconnectTimers, reconnectTimeout, nextTimer, monitoredMarkets,
                   closes, lastEvent, tradeVars, oppVars, scanVars, unitVars>>

NextWs ==
    \/ Start
    \/ SocketOpen
    \/ SocketError
    \/ SocketClose
    \/ ReconnectTimerFires
    \/ ConnectTimerFires
    \/ NonJsonFrame
    \/ TradeFrame
    \/ RefreshMarkets
    \/ Stop
    \/ ProcessExit
    \/ TickWs

\* ------------------------------------------------------------------------
\* The Opportunity state and the Leader Monitor
\* ------------------------------------------------------------------------
\* Relations offered to addOpportunity.  Each has its own leader market, named
\* like the opportunity; leaderEnd orders the leaders' end dates (1 = Jan 31,
\* 2 = Feb 28, 3 = Mar 31).  The third relation comes in either series.
Relations ==
    [o1 |-> {[seriesId |-> "s1", leaderEnd |-> 1]},
     o2 |-> {[seriesId |-> "s1", leaderEnd |-> 2]},
     o3 |-> {[seriesId |-> "s1", leaderEnd |-> 3], [seriesId |-> "s2", leaderEnd |-> 3]}]

OppIds == DOMAIN Relations

\* YES prices (percent) the market API reports
YesPrices == {50, 92}


\* what fetchMarketStatus can return for the leader market of opportunity o:
\* null (ok = FALSE) or the market as Polymarket reports it now
MarketResponses(o) ==
    { [ok |-> ok, resolved |-> (o \in marketResolved), outcomeClear |-> c,
       hasPrice |-> h, yesPrice |-> p] :
          ok \in BOOLEAN, c \in BOOLEAN, h \in BOOLEAN, p \in YesPrices }

\* log is the line the check printed for the opportunity at the head of queue,
\* price the YES price it read for it
IdleTask == [phase |-> "idle", queue |-> <<>>, targets |-> <<>>, log |-> "", price |-> 0]

Ids(opps) == [i \in 1..Len(opps) |-> opps[i].id]

Opp(id) == opportunities[CHOOSE i \in 1..Len(opportunities) : opportunities[i].id = id]

\* --- State ------------------------------------------------------------------
\* variant: an Opportunity that is tracked already is entered afresh
addOpportunity_resets(opps, id, relation) ==
    LET fresh == [id |-> id, leaderResolved |-> FALSE, thresholdTriggered |-> FALSE,
                  status |-> "active", seriesId |-> relation.seriesId,
                  leaderEnd |-> relation.leaderEnd, relation |-> relation]
    IN IF \E i \in 1..Len(opps) : opps[i].id = id
       THEN [i \in 1..Len(opps) |-> IF opps[i].id = id THEN fresh ELSE opps[i]]
       ELSE Append(opps, fresh)

addOpportunity(opps, id, relation) ==
    IF \E i \in 1..Len(opps) : opps[i].id = id THEN opps
    ELSE Append(opps, [id |-> id, leaderResolved |-> FALSE, thresholdTriggered |-> FALSE,
                       status |-> "active", seriesId |-> relation.seriesId,
                       leaderEnd |-> relation.leaderEnd, relation |-> relation])

markLeaderResolved(opps, id) ==
    [i \in 1..Len(opps) |->
        IF opps[i].id = id
        THEN [opps[i] EXCEPT !.leaderResolved = TRUE, !.status = "resolved"]
        ELSE opps[i]]

markThresholdTriggered(opps, id) ==
    [i \in 1..Len(opps) |->
        IF opps[i].id = id
        THEN [opps[i] EXCEPT !.thresholdTriggered = TRUE, !.status = "threshold_triggered"]
        ELSE opps[i]]

getUnresolvedOpportunities(opps) == SelectSeq(opps, LAMBDA o : ~o.leaderResolved)

getActiveOpportunities(opps) ==
    SelectSeq(opps, LAMBDA o : o.status = "active" /\ ~o.leaderResolved /\ ~o.thresholdTriggered)

getOpportunitiesInSeries(opps, seriesId) ==
    IF seriesId = "" THEN <<>> ELSE SelectSeq(opps, LAMBDA o : o.seriesId = seriesId)

\* --- Events the Monitor hands to the Notifier -------------------------------
\* An event as it is handed over: its kind, the opportunity it is about, the
\* price passed along and the opportunity whose leader triggered it; and, as
\* history, the opportunity's status just before the state was marked and the
\* number of opportunities tracked then.
Event(kind, id, price, trigger, opps) ==
    [kind |-> kind, id |-> id, price |-> price, trigger |-> trigger,
     status |-> opps[CHOOSE i \in 1..Len(opps) : opps[i].id = id].status,
     tracked |-> Len(opps)]

\* emitted is a bag: how many times each event was handed over
Emit(bag, e) == MapSet(bag, e, IF e \in DOMAIN bag THEN bag[e] + 1 ELSE 1)

RECURSIVE BagSum(_, _)
BagSum(bag, S) ==
    IF S = {} THEN 0
    ELSE LET e == CHOOSE x \in S : TRUE IN bag[e] + BagSum(bag, S \ {e})

EventCount(kind, id) ==
    BagSum(emitted, {e \in DOMAIN emitted : e.kind = kind /\ e.id = id})

\* --- Monitor ----------------------------------------------------------------
\* variant: the cascade reaches only the sibling that ends next
cascadeTargets_nextOnly(opps, triggered) ==
    SelectSeq(getOpportunitiesInSeries(opps, triggered.seriesId),
              LAMBDA o : /\ o.id # triggered.id
                         /\ ~o.thresholdTriggered
                         /\ o.leaderEnd = triggered.leaderEnd + 1)

\* cascadeThresholdAlert's filter: same series, not the trigger, not yet
\* threshold-triggered, leader ending later
cascadeTargets(opps, triggered) ==
    SelectSeq(getOpportunitiesInSeries(opps, triggered.seriesId),
              LAMBDA o : /\ o.id # triggered.id
                         /\ ~o.thresholdTriggered
                         /\ o.leaderEnd > triggered.leaderEnd)

\* the for loop moves to its next opportunity, or the check returns
NextInQueue(task) ==
    IF Tail(task.queue) = <<>> THEN IdleTask
    ELSE [phase |-> "fetch", queue |-> Tail(task.queue), targets |-> <<>>, log |-> "", price |-> 0]

\* variant: a closed market whose outcome does not parse is reported as resolved
leaderFetched_unclearResolves(task, market) ==
    IF ~market.ok THEN NextInQueue(task)
    ELSE IF market.resolved
         THEN IF market.outcomeClear
              THEN [task EXCEPT !.phase = "notify", !.log = "LEADER RESOLVED"]
              ELSE [task EXCEPT !.phase = "notify", !.log = "outcome unclear"]
         ELSE [task EXCEPT !.phase = "delay"]

\* one iteration of checkLeaderResolutions from the return of fetchMarketStatus
\* to its next await: notifyLeaderResolved or the 200 ms pause
leaderFetched(task, market) ==
    IF ~market.ok THEN NextInQueue(task)
    ELSE IF market.resolved
         THEN IF market.outcomeClear
              THEN [task EXCEPT !.phase = "notify", !.log = "LEADER RESOLVED"]
              ELSE [task EXCEPT !.phase = "delay", !.log = "outcome unclear"]
         ELSE [task EXCEPT !.phase = "delay"]

Checks == 1..MaxChecks

\* no check is running and nothing has been handed to the Notifier
MonitorIdle ==
    /\ marketResolved = {}
    /\ resolutionTask = [k \in Checks |-> IdleTask]
    /\ thresholdTask = IdleTask
    /\ emitted = <<>>
    /\ crashes = <<>>

InitOpp ==
    /\ opportunities = <<>>
    /\ MonitorIdle

\* State files the agent can find at startup: one or two tracked opportunities
StateFiles ==
    LET one == addOpportunity(<<>>, "o1", [seriesId |-> "s1", leaderEnd |-> 1])
    IN {one, addOpportunity(one, "o2", [seriesId |-> "s1", leaderEnd |-> 2])}

\* the agent starts on a state file written by an earlier run
InitMonitor ==
    /\ opportunities \in StateFiles
    /\ MonitorIdle

\* the scan tracks a new relation
AddOpportunity ==
    \E id \in OppIds : \E relation \in Relations[id] :
        /\ \A i \in 1..Len(opportunities) : opportunities[i].id # id
        /\ opportunities' = addOpportunity(opportunities, id, relation)
        /\ UNCHANGED <<marketResolved, resolutionTask, thresholdTask, emitted, crashes,
                       tradeVars, wsVars, scanVars, unitVars>>

\* Polymarket resolves or closes a leader market
MarketResolves ==
    \E id \in {opportunities[i].id : i \in 1..Len(opportunities)} \ marketResolved :
        /\ marketResolved' = marketResolved \cup {id}
        /\ UNCHANGED <<opportunities, resolutionTask, thresholdTask, emitted, crashes,
                       tradeVars, wsVars, scanVars, unitVars>>

\* checkLeaderResolutions up to its first fetch, for check k
startCheck(k) ==
    /\ getUnresolvedOpportunities(opportunities) # <<>>
    /\ resolutionTask' =
          [resolutionTask EXCEPT ![k] =
              [phase |-> "fetch",
               queue |-> Ids(getUnresolvedOpportunities(opportunities)),
               targets |-> <<>>, log |-> "", price |-> 0]]
    /\ UNCHANGED <<opportunities, marketResolved, thresholdTask, emitted, crashes,
                   tradeVars, wsVars, scanVars, unitVars>>

\* the check at startup, or the resolution timer fires after the check of the
\* previous tick has returned
StartResolutionCheck ==
    /\ \A k \in Checks : resolutionTask[k].phase = "idle"
    /\ startCheck(1)

\* the resolution timer fires while the check of an earlier tick is still
\* waiting for a response: setInterval does not wait for its callback's promise
ResolutionTimerOverlaps ==
    \E k \in Checks :
        /\ resolutionTask[k].phase = "idle"
        /\ \E j \in Checks : resolutionTask[j].phase # "idle"
        /\ \A j \in Checks : (j # k /\ resolutionTask[j].phase = "idle") => k < j
        /\ startCheck(k)

\* fetchMarketStatus returned for the opportunity at the head of the loop; a
\* parsed outcome is handed to notifyLeaderResolved
ResolutionFetched ==
    \E k \in Checks :
        /\ resolutionTask[k].phase = "fetch"
        /\ \E market \in MarketResponses(Head(resolutionTask[k].queue)) :
              LET task == leaderFetched(resolutionTask[k], market)
              IN /\ resolutionTask' = [resolutionTask EXCEPT ![k] = task]
                 /\ emitted' =
                       IF task.phase = "notify"
                       THEN Emit(emitted, Event("LEADER_RESOLVED", Head(task.queue), 0, "",
                                               opportunities))
                       ELSE emitted
        /\ UNCHANGED <<opportunities, marketResolved, thresholdTask, crashes,
                       tradeVars, wsVars, scanVars, unitVars>>

\* notifyLeaderResolved returned: markLeaderResolved
ResolutionNotified ==
    \E k \in Checks :
        /\ resolutionTask[k].phase = "notify"
        /\ opportunities' = markLeaderResolved(opportunities, Head(resolutionTask[k].queue))
        /\ resolutionTask' = [resolutionTask EXCEPT ![k].phase = "delay"]
        /\ UNCHANGED <<marketResolved, thresholdTask, emitted, crashes, tradeVars, wsVars, scanVars, unitVars>>

\* the 200 ms pause at the end of an iteration is over
ResolutionDelayDone ==
    \E k \in Checks :
        /\ resolutionTask[k].phase = "delay"
        /\ resolutionTask' = [resolutionTask EXCEPT ![k] = NextInQueue(resolutionTask[k])]
        /\ UNCHANGED <<opportunities, marketResolved, thresholdTask, emitted, crashes,
                       tradeVars, wsVars, scanVars, unitVars>>

\* checkPriceThresholds up to its first fetch
StartThresholdCheck ==
    /\ thresholdTask.phase = "idle"
    /\ getActiveOpportunities(opportunities) # <<>>
    /\ thresholdTask' = [phase |-> "fetch",
                         queue |-> Ids(getActiveOpportunities(opportunities)),
                         targets |-> <<>>, log |-> "", price |-> 0]
    /\ UNCHANGED <<opportunities, marketResolved, resolutionTask, emitted, crashes,
                   tradeVars, wsVars, scanVars, unitVars>>

\* fetchMarketStatus returned: at 90%+ markThresholdTriggered, then notify
ThresholdFetched ==
    /\ thresholdTask.phase = "fetch"
    /\ \E market \in MarketResponses(Head(thresholdTask.queue)) :
          IF ~market.ok \/ market.resolved \/ ~market.hasPrice
          THEN /\ thresholdTask' = NextInQueue(thresholdTask)
               /\ UNCHANGED <<opportunities, emitted>>
          ELSE IF market.yesPrice >= NEAR_CERTAINTY_THRESHOLD
               THEN /\ opportunities' =
                          markThresholdTriggered(opportunities, Head(thresholdTask.queue))
                    /\ emitted' = Emit(emitted, Event("NEAR_CERTAINTY", Head(thresholdTask.queue),
                                                    market.yesPrice, Head(thresholdTask.queue),
                                                    opportunities))
                    /\ thresholdTask' = [thresholdTask EXCEPT !.phase = "notifyHit",
                                                              !.log = "THRESHOLD HIT",
                                                              !.price = market.yesPrice]
               ELSE /\ thresholdTask' = [thresholdTask EXCEPT !.phase = "delay"]
                    /\ UNCHANGED <<opportunities, emitted>>
    /\ UNCHANGED <<marketResolved, resolutionTask, crashes, tradeVars, wsVars, scanVars, unitVars>>

\* notifyThresholdHit returned: cascadeThresholdAlert up to its first notify
ThresholdHitNotified ==
    /\ thresholdTask.phase = "notifyHit"
    /\ LET targets == Ids(cascadeTargets(opportunities, Opp(Head(thresholdTask.queue))))
       IN IF targets = <<>>
          THEN /\ thresholdTask' = [thresholdTask EXCEPT !.phase = "delay"]
               /\ UNCHANGED <<opportunities, emitted>>
          ELSE /\ opportunities' = markThresholdTriggered(opportunities, Head(targets))
               /\ emitted' = Emit(emitted, Event("CASCADE", Head(targets), thresholdTask.price,
                                               Head(thresholdTask.queue), opportunities))
               /\ thresholdTask' = [thresholdTask EXCEPT !.phase = "cascade",
                                                         !.targets = targets]
    /\ UNCHANGED <<marketResolved, resolutionTask, crashes, tradeVars, wsVars, scanVars, unitVars>>

\* notifyCascadeThreshold returned: the next cascade target, or the loop goes on
CascadeNotified ==
    /\ thresholdTask.phase = "cascade"
    /\ IF Tail(thresholdTask.targets) = <<>>
       THEN /\ thresholdTask' = [thresholdTask EXCEPT !.phase = "delay", !.targets = <<>>]
            /\ UNCHANGED <<opportunities, emitted>>
       ELSE /\ opportunities' =
                  markThresholdTriggered(opportunities, Head(Tail(thresholdTask.targets)))
            /\ emitted' = Emit(emitted, Event("CASCADE", Head(Tail(thresholdTask.targets)),
                                            thresholdTask.price,
                                            Head(thresholdTask.queue), opportunities))
            /\ thresholdTask' = [thresholdTask EXCEPT !.targets = Tail(@)]
    /\ UNCHANGED <<marketResolved, resolutionTask, crashes, tradeVars, wsVars, scanVars, unitVars>>

\* the 200 ms pause at the end of an iteration is over
ThresholdDelayDone ==
    /\ thresholdTask.phase = "delay"
    /\ thresholdTask' = NextInQueue(thresholdTask)
    /\ UNCHANGED <<opportunities, marketResolved, resolutionTask, emitted, crashes,
                   tradeVars, wsVars, scanVars, unitVars>>

\* opportunities whose LEADER_RESOLVED was handed over and not yet marked
Unmarked == {Head(resolutionTask[k].queue) : k \in {j \in Checks : resolutionTask[j].phase = "notify"}}

\* the process dies and is started again: every running check is gone, the
\* state file holds what the last saveState wrote
CrashRestart ==
    /\ Len(crashes) < MaxCrashes
    /\ \E k \in Checks : resolutionTask[k].phase # "idle"
    /\ crashes' = Append(crashes, Unmarked)
    /\ resolutionTask' = [k \in Checks |-> IdleTask]
    /\ thresholdTask' = IdleTask
    /\ UNCHANGED <<opportunities, marketResolved, emitted, tradeVars, wsVars, scanVars, unitVars>>

NextOpp ==
    \/ AddOpportunity
    \/ MarketResolves
    \/ StartResolutionCheck
    \/ ResolutionFetched
    \/ ResolutionNotified
    \/ ResolutionDelayDone
    \/ StartThresholdCheck
    \/ ThresholdFetched
    \/ ThresholdHitNotified
    \/ CascadeNotified
    \/ ThresholdDelayDone

\* the resolution checks alone, with the timer and the process as they are
NextMonitor ==
    \/ MarketResolves
    \/ StartResolutionCheck
    \/ ResolutionTimerOverlaps
    \/ ResolutionFetched
    \/ ResolutionNotified
    \/ ResolutionDelayDone
    \/ CrashRestart

\* ------------------------------------------------------------------------
\* The Discovery Pipeline (index.ts scan, Pipeline, the State cache)
\* ------------------------------------------------------------------------
\* Time is in days here.  A market is [id, endTime]; endTime 0 stands for a
\* market the exchange lists without an end date.  A string the code joins,
\* splits or sorts is the sequence of its characters.
mA == <<"m", "A">>
mB == <<"m", "B">>
mC == <<"m", "C">>

\* the ids of the markets the exchange serves to the scans
MarketIds == {mA, mB, mC}

\* The end date the exchange reports for each market on day t.  It moves the
\* end dates of mA and mB after day 0 and drops that of mC.
EndTime(m, t) ==
    IF t = 0 THEN (IF m = mA THEN 40 ELSE 70)
    ELSE IF m = mA THEN 100 + t
    ELSE IF m = mB THEN 110 + t
    ELSE 0

\* the UTF-16 code units of the characters market ids are written with here
CharCode == [c \in {"-", "1", "2", "A", "B", "C", "m"} |->
                CASE c = "-" -> 45 [] c = "1" -> 49 [] c = "2" -> 50 [] c = "A" -> 65
                  [] c = "B" -> 66 [] c = "C" -> 67 [] c = "m" -> 109]

\* a < b in the order of Array.prototype.sort without a compare function:
\* by code unit from the left, a proper prefix first
RECURSIVE StringLess(_, _)
StringLess(a, b) ==
    IF b = <<>> THEN FALSE
    ELSE IF a = <<>> THEN TRUE
    ELSE IF Head(a) # Head(b) THEN CharCode[Head(a)] < CharCode[Head(b)]
    ELSE StringLess(Tail(a), Tail(b))

\* String.prototype.split('-'): the pieces between the hyphens
RECURSIVE SplitAtHyphen(_, _)
SplitAtHyphen(str, piece) ==
    IF str = <<>> THEN <<piece>>
    ELSE IF Head(str) = "-" THEN <<piece>> \o SplitAtHyphen(Tail(str), <<>>)
    ELSE SplitAtHyphen(Tail(str), Append(piece, Head(str)))

split(str) == SplitAtHyphen(str, <<>>)

\* `${a}-${b}` and [a, b].join('-')
join(a, b) == a \o <<"-">> \o b

\* What the LLM call of analyzePair can come back with: a reply that does not
\* parse, or the relationshipType and confidenceScore (percent) of the parsed
\* object; "" and 0 stand for a missing field.
LlmReplies ==
    {[parsed |-> FALSE, relationshipType |-> "", confidenceScore |-> 0],
     [parsed |-> TRUE, relationshipType |-> "", confidenceScore |-> 90],
     [parsed |-> TRUE, relationshipType |-> "SAME_OUTCOME", confidenceScore |-> 50],
     [parsed |-> TRUE, relationshipType |-> "DIFFERENT_OUTCOME", confidenceScore |-> 40],
     [parsed |-> TRUE, relationshipType |-> "CORRELATED", confidenceScore |-> 90]}

\* --- PolymarketIngestion ------------------------------------------------------
\* meetsRequirements: a market with an end date must end 7 days from now or later
meetsRequirements(market, t) ==
    IF market.endTime # 0 THEN market.endTime - t >= MIN_DAYS_TO_END ELSE TRUE

\* The market lists one scan can work on: two or three qualifying markets in
\* the order of their ids or in the reverse order, in one cluster.
Groups(t) ==
    LET list(order, S) ==
            LET ids == SelectSeq(order, LAMBDA m : m \in S)
            IN [i \in 1..Len(ids) |-> [id |-> ids[i], endTime |-> EndTime(ids[i], t)]]
        ok(S) == \A m \in S : meetsRequirements([id |-> m, endTime |-> EndTime(m, t)], t)
    IN {list(order, S) :
            order \in {<<mA, mB, mC>>, <<mC, mB, mA>>},
            S \in {T \in SUBSET MarketIds : Cardinality(T) >= 2 /\ ok(T)}}

\* --- State: the market and pair caches ----------------------------------------
isMarketNew(seen, marketId) == marketId \notin DOMAIN seen

markMarketSeen(seen, market) ==
    IF market.id \in DOMAIN seen THEN seen
    ELSE MapSet(seen, market.id, [endTime |-> market.endTime])

RECURSIVE markAllSeen(_, _)
markAllSeen(seen, markets) ==
    IF markets = <<>> THEN seen
    ELSE markAllSeen(markMarketSeen(seen, Head(markets)), Tail(markets))

\* variant: the ids are joined in the order given
canonicalPairId_unsorted(id1, id2) == join(id1, id2)

\* [id1, id2].sort().join('-')
canonicalPairId(id1, id2) ==
    IF StringLess(id2, id1) THEN join(id2, id1) ELSE join(id1, id2)

isPairAnalyzed(pairs, id1, id2) == canonicalPairId(id1, id2) \in DOMAIN pairs

getPairResult(pairs, id1, id2) == pairs[canonicalPairId(id1, id2)]

savePairResult(pairs, id1, id2, result, confidence) ==
    MapSet(pairs, canonicalPairId(id1, id2), [result |-> result, confidence |-> confidence])

\* markets whose end date, as first seen, lies more than the retention behind
marketsToRemove(seen, t) ==
    {m \in DOMAIN seen : seen[m].endTime # 0 /\ seen[m].endTime + MARKET_RETENTION_DAYS < t}

\* variant: the cleanup drops the ended markets and keeps their pair entries
cleanupEndedMarkets_keepsPairs(cache, t) ==
    LET gone == marketsToRemove(cache.seenMarkets, t)
    IN [seenMarkets |-> [m \in DOMAIN cache.seenMarkets \ gone |-> cache.seenMarkets[m]],
        analyzedPairs |-> cache.analyzedPairs]

\* `const [id1, id2] = pairId.split('-')`: the first two pieces, id2 being
\* undefined (in no set) when there is one piece only
cleanupEndedMarkets(cache, t) ==
    LET gone == marketsToRemove(cache.seenMarkets, t)
        id1(pairId) == split(pairId)[1]
        hasId2(pairId) == Len(split(pairId)) >= 2
        id2(pairId) == split(pairId)[2]
        kept == {pairId \in DOMAIN cache.analyzedPairs :
                    /\ id1(pairId) \notin gone
                    /\ IF hasId2(pairId) THEN id2(pairId) \notin gone ELSE TRUE}
    IN [seenMarkets |-> [m \in DOMAIN cache.seenMarkets \ gone |-> cache.seenMarkets[m]],
        analyzedPairs |-> [pairId \in kept |-> cache.analyzedPairs[pairId]]]

hasOpportunity(opps, id) == \E i \in 1..Len(opps) : opps[i].id = id

\* --- Pipeline -------------------------------------------------------------------
NoTimeInfo == [ok |-> FALSE, days |-> 0, leaderId |-> "", followerId |-> ""]

\* variant: the later market leads
calculateTimeGap_laterLeads(m1, m2) ==
    IF m1.endTime = 0 \/ m2.endTime = 0 THEN NoTimeInfo
    ELSE [ok |-> TRUE,
          days |-> Abs(m1.endTime - m2.endTime),
          leaderId |-> IF m1.endTime < m2.endTime THEN m2.id ELSE m1.id,
          followerId |-> IF m1.endTime < m2.endTime THEN m1.id ELSE m2.id]

\* ok = FALSE stands for null
calculateTimeGap(m1, m2) ==
    IF m1.endTime = 0 \/ m2.endTime = 0 THEN NoTimeInfo
    ELSE [ok |-> TRUE,
          days |-> Abs(m1.endTime - m2.endTime),
          leaderId |-> IF m1.endTime < m2.endTime THEN m1.id ELSE m2.id,
          followerId |-> IF m1.endTime < m2.endTime THEN m2.id ELSE m1.id]

isActionable(type, confidence) ==
    type # "UNRELATED" /\ type # "SAME_EVENT_REJECT" /\ confidence >= MIN_CONFIDENCE

\* a MarketRelation; leaderEnd is the end time of its leader market
MarketRelation(m1, m2, type, confidence, timeInfo) ==
    [market1 |-> m1, market2 |-> m2,
     relationshipType |-> type, confidenceScore |-> confidence,
     leaderId |-> timeInfo.leaderId, followerId |-> timeInfo.followerId,
     timeGapDays |-> timeInfo.days,
     seriesId |-> "",
     leaderEnd |-> IF timeInfo.leaderId = m1.id THEN m1.endTime ELSE m2.endTime]

buildRelationFromCache(m1, m2, cached, timeInfo) ==
    MarketRelation(m1, m2, cached.result, cached.confidence, timeInfo)

\* variant: a reply that does not parse counts as UNRELATED with confidence 0
analyzePair_failsAsUnrelated(m1, m2, timeInfo, reply) ==
    [ok |-> TRUE,
     rel |-> MarketRelation(m1, m2,
                 IF reply.relationshipType = "" THEN "UNRELATED" ELSE reply.relationshipType,
                 reply.confidenceScore, timeInfo)]

\* analyzePair for the LLM reply `reply`; ok = FALSE stands for null
analyzePair(m1, m2, timeInfo, reply) ==
    IF ~reply.parsed
    THEN [ok |-> FALSE, rel |-> MarketRelation(m1, m2, "", 0, timeInfo)]
    ELSE [ok |-> TRUE,
          rel |-> MarketRelation(m1, m2,
                      IF reply.relationshipType = "" THEN "UNRELATED"
                      ELSE reply.relationshipType,
                      reply.confidenceScore, timeInfo)]

\* variant: every pair is sent to the LLM
needsAnalysis_always(isPairNew, analyzed) == TRUE

\* findRelationshipsWithCache's test `!isPairNew && state.isPairAnalyzed(...)`, negated
needsAnalysis(isPairNew, analyzed) == ~(~isPairNew /\ analyzed)

\* the index pairs (i, j), i < j, in the order of the two nested loops
RECURSIVE PairIndices(_, _, _)
PairIndices(n, i, j) ==
    IF i >= n THEN <<>>
    ELSE IF j > n THEN PairIndices(n, i + 1, i + 2)
         ELSE <<(<<i, j>>)>> \o PairIndices(n, i, j + 1)

IdleScan == [phase |-> "idle", group |-> <<>>, newMarketIds |-> {}, queue |-> <<>>,
             relationships |-> <<>>]

NoHistory == [submitted |-> FALSE, evaluated |-> FALSE, purged |-> FALSE]

CanonicalPairs == {canonicalPairId(a, b) : a \in MarketIds, b \in MarketIds} \ {join(m, m) : m \in MarketIds}

\* the markets whose pair has the canonical id p
MarketsOfPair(p) == {m \in MarketIds : \E other \in MarketIds : canonicalPairId(m, other) = p}

InitScan ==
    /\ today = 0
    /\ dayTicks = 0
    /\ scans = 0
    /\ seenMarkets = <<>>
    /\ analyzedPairs = <<>>
    /\ scanTask = IdleScan
    /\ pairLog = {}
    /\ pairHistory = [p \in CanonicalPairs |-> NoHistory]

\* scan() up to the pair loops: the incremental fetch tells the new markets
\* from the seen ones and marks every fetched market seen
StartScan ==
    /\ scanTask.phase = "idle"
    /\ scans < MaxScans
    /\ \E group \in Groups(today) :
          /\ scanTask' = [phase |-> "pairs", group |-> group,
                          newMarketIds |-> {group[i].id : i \in {k \in 1..Len(group) :
                                               isMarketNew(seenMarkets, group[k].id)}},
                          queue |-> PairIndices(Len(group), 1, 2),
                          relationships |-> <<>>]
          /\ seenMarkets' = markAllSeen(seenMarkets, group)
    /\ UNCHANGED <<today, dayTicks, scans, analyzedPairs, pairLog, pairHistory,
                   opportunities, monitorVars, tradeVars, wsVars, unitVars>>

\* one iteration of findRelationshipsWithCache's inner loop
AnalyzeNextPair ==
    /\ scanTask.phase = "pairs"
    /\ scanTask.queue # <<>>
    /\ LET m1 == scanTask.group[Head(scanTask.queue)[1]]
           m2 == scanTask.group[Head(scanTask.queue)[2]]
           pairId == canonicalPairId(m1.id, m2.id)
           timeInfo == calculateTimeGap(m1, m2)
           isPairNew == m1.id \in scanTask.newMarketIds \/ m2.id \in scanTask.newMarketIds
           entry(how, parsed) ==
               [pair |-> pairId, how |-> how, parsed |-> parsed,
                anyNew |-> isPairNew,
                evaluatedBefore |-> pairHistory[pairId].evaluated \/ pairHistory[pairId].purged,
                purgedBefore |-> pairHistory[pairId].purged]
       IN IF ~timeInfo.ok \/ timeInfo.days < MIN_TIME_GAP_DAYS
          THEN /\ scanTask' = [scanTask EXCEPT !.queue = Tail(@)]
               /\ pairLog' = {entry("skip", FALSE)}
               /\ UNCHANGED <<analyzedPairs, pairHistory>>
          ELSE IF ~needsAnalysis(isPairNew, isPairAnalyzed(analyzedPairs, m1.id, m2.id))
          THEN LET cached == getPairResult(analyzedPairs, m1.id, m2.id)
                   hit == isActionable(cached.result, cached.confidence)
               IN /\ scanTask' =
                        [scanTask EXCEPT
                            !.queue = Tail(@),
                            !.relationships =
                                IF hit
                                THEN Append(@, buildRelationFromCache(m1, m2, cached, timeInfo))
                                ELSE @]
                  /\ pairLog' = {entry("cache", FALSE)}
                  /\ UNCHANGED <<analyzedPairs, pairHistory>>
          ELSE \E reply \in LlmReplies :
                  LET r == analyzePair(m1, m2, timeInfo, reply)
                      hit == r.ok /\ isActionable(r.rel.relationshipType, r.rel.confidenceScore)
                  IN /\ analyzedPairs' =
                           IF r.ok
                           THEN savePairResult(analyzedPairs, m1.id, m2.id,
                                               r.rel.relationshipType, r.rel.confidenceScore)
                           ELSE analyzedPairs
                     /\ scanTask' =
                           [scanTask EXCEPT
                               !.queue = Tail(@),
                               !.relationships = IF hit THEN Append(@, r.rel) ELSE @]
                     /\ pairLog' = {entry("llm", reply.parsed)}
                     /\ pairHistory' =
                           [pairHistory EXCEPT
                               ![pairId] = IF reply.parsed
                                           THEN [submitted |-> TRUE, evaluated |-> TRUE,
                                                 purged |-> FALSE]
                                           ELSE [@ EXCEPT !.submitted = TRUE]]
    /\ UNCHANGED <<today, dayTicks, scans, seenMarkets, opportunities, monitorVars,
                   tradeVars, wsVars, unitVars>>

\* runPipelineWithCache's loop over the relationships of the cluster
RECURSIVE registerAll(_, _)
registerAll(opps, relationships) ==
    IF relationships = <<>> THEN opps
    ELSE LET relation == Head(relationships)
             oppId == join(relation.market1.id, relation.market2.id)
         IN registerAll(IF hasOpportunity(opps, oppId) THEN opps
                        ELSE addOpportunity(opps, oppId, relation),
                        Tail(relationships))

\* the pair loops are done: new relationships are tracked
RegisterOpportunities ==
    /\ scanTask.phase = "pairs"
    /\ scanTask.queue = <<>>
    /\ opportunities' = registerAll(opportunities, scanTask.relationships)
    /\ scanTask' = [scanTask EXCEPT !.phase = "cleanup", !.relationships = <<>>]
    /\ UNCHANGED <<today, dayTicks, scans, seenMarkets, analyzedPairs, pairLog, pairHistory,
                   monitorVars, tradeVars, wsVars, unitVars>>

\* cleanupEndedMarkets and saveState end the scan
CleanupAndSave ==
    /\ scanTask.phase = "cleanup"
    /\ LET cache == cleanupEndedMarkets([seenMarkets |-> seenMarkets,
                                         analyzedPairs |-> analyzedPairs], today)
           gone == marketsToRemove(seenMarkets, today)
       IN /\ seenMarkets' = cache.seenMarkets
          /\ analyzedPairs' = cache.analyzedPairs
          /\ pairHistory' =
                [p \in CanonicalPairs |->
                    IF pairHistory[p].evaluated /\ MarketsOfPair(p) \cap gone # {}
                    THEN [submitted |-> FALSE, evaluated |-> FALSE, purged |-> TRUE]
                    ELSE pairHistory[p]]
    /\ scanTask' = IdleScan
    /\ scans' = scans + 1
    /\ UNCHANGED <<today, dayTicks, pairLog, opportunities, monitorVars, tradeVars, wsVars, unitVars>>

\* time passes between two scans
DaysPass ==
    /\ scanTask.phase = "idle"
    /\ dayTicks < MaxDayTicks
    /\ today' = today + DayStep
    /\ dayTicks' = dayTicks + 1
    /\ UNCHANGED <<scans, seenMarkets, analyzedPairs, scanTask, pairLog, pairHistory,
                   opportunities, monitorVars, tradeVars, wsVars, unitVars>>

NextScan ==
    \/ StartScan
    \/ AnalyzeNextPair
    \/ RegisterOpportunities
    \/ CleanupAndSave
    \/ DaysPass

\* ------------------------------------------------------------------------
\* State driven on its own (the Opportunity & Cache State, call by call)
\* ------------------------------------------------------------------------
NoCall == [op |-> "none"]

\* the statistics of an Alert Store that holds no alert and was never saved
NoStats == [byType |-> <<>>, bySeverity |-> <<>>, last24h |-> 0, last7d |-> 0,
            lastUpdated |-> 0]

InitUnit ==
    /\ embeddings = {}
    /\ calls = 0
    /\ lastCall = NoCall
    /\ simulatedTime = <<>>
    /\ addedTrades = {}
    /\ statTrades = [m \in Markets |-> <<>>]
    /\ lowPriceBuys = [m \in Markets |-> <<>>]
    /\ incomplete = {}
    /\ alertStats = NoStats
    /\ startAt = "idle"
    /\ leaderYesPrice = [id \in OppIds |-> 50]

\* market ids offered to State's methods: any string is accepted
StateIds == {<<"A">>, <<"B">>, <<"A", "-", "B">>}

\* end times offered with a market: none, or a day
StateEndTimes == {0, 10, 60}

\* results offered to savePairResult
PairResults == {"UNRELATED", "SAME_OUTCOME"}

\* relations offered to addOpportunity
StateRelations ==
    {MarketRelation(m1, m2, "SAME_OUTCOME", 90, calculateTimeGap(m1, m2)) :
        m1 \in {[id |-> <<"A">>, endTime |-> 10]},
        m2 \in {[id |-> <<"B">>, endTime |-> 60], [id |-> <<"A", "-", "B">>, endTime |-> 60]}}

saveEmbedding(cached, marketId) == cached \cup {marketId}

\* the embeddings part of cleanupEndedMarkets
cleanupEmbeddings(cached, seen, t) == cached \ marketsToRemove(seen, t)

CallMarkMarketSeen ==
    /\ calls < MaxCalls
    /\ \E id \in StateIds, endTime \in StateEndTimes :
          /\ seenMarkets' = markMarketSeen(seenMarkets, [id |-> id, endTime |-> endTime])
          /\ lastCall' = [op |-> "markMarketSeen", id |-> id]
    /\ calls' = calls + 1
    /\ UNCHANGED <<today, dayTicks, scans, analyzedPairs, scanTask, pairLog, pairHistory,
                   embeddings, oppVars, tradeVars, wsVars, componentVars>>

CallSaveEmbedding ==
    /\ calls < MaxCalls
    /\ \E id \in StateIds :
          /\ embeddings' = saveEmbedding(embeddings, id)
          /\ lastCall' = [op |-> "saveEmbedding", id |-> id]
    /\ calls' = calls + 1
    /\ UNCHANGED <<scanVars, oppVars, tradeVars, wsVars, componentVars>>

CallSavePairResult ==
    /\ calls < MaxCalls
    /\ \E id1 \in StateIds, id2 \in StateIds, result \in PairResults :
          /\ analyzedPairs' = savePairResult(analyzedPairs, id1, id2, result, 90)
          /\ lastCall' = [op |-> "savePairResult", id1 |-> id1, id2 |-> id2,
                          result |-> result, confidence |-> 90]
    /\ calls' = calls + 1
    /\ UNCHANGED <<today, dayTicks, scans, seenMarkets, scanTask, pairLog, pairHistory,
                   embeddings, oppVars, tradeVars, wsVars, componentVars>>

CallCleanupEndedMarkets ==
    /\ calls < MaxCalls
    /\ LET cache == cleanupEndedMarkets([seenMarkets |-> seenMarkets,
                                         analyzedPairs |-> analyzedPairs], today)
       IN /\ seenMarkets' = cache.seenMarkets
          /\ analyzedPairs' = cache.analyzedPairs
    /\ embeddings' = cleanupEmbeddings(embeddings, seenMarkets, today)
    /\ lastCall' = [op |-> "cleanupEndedMarkets",
                    purged |-> marketsToRemove(seenMarkets, today)]
    /\ calls' = calls + 1
    /\ UNCHANGED <<today, dayTicks, scans, scanTask, pairLog, pairHistory,
                   oppVars, tradeVars, wsVars, componentVars>>

CallAddOpportunity ==
    /\ calls < MaxCalls
    /\ \E relation \in StateRelations :
          /\ opportunities' = addOpportunity(opportunities,
                                             join(relation.market1.id, relation.market2.id),
                                             relation)
          /\ lastCall' = [op |-> "addOpportunity", relation |-> relation,
                          before |-> opportunities]
    /\ calls' = calls + 1
    /\ UNCHANGED <<monitorVars, scanVars, embeddings, tradeVars, wsVars, componentVars>>

CallMarkOpportunity ==
    /\ calls < MaxCalls
    /\ \E i \in 1..Len(opportunities) :
          \/ /\ opportunities' = markLeaderResolved(opportunities, opportunities[i].id)
             /\ lastCall' = [op |-> "markLeaderResolved", id |-> opportunities[i].id]
          \/ /\ opportunities' = markThresholdTriggered(opportunities, opportunities[i].id)
             /\ lastCall' = [op |-> "markThresholdTriggered", id |-> opportunities[i].id]
    /\ calls' = calls + 1
    /\ UNCHANGED <<monitorVars, scanVars, embeddings, tradeVars, wsVars, componentVars>>

\* time passes between two calls
StateDaysPass ==
    /\ dayTicks < MaxDayTicks
    /\ today' = today + DayStep
    /\ dayTicks' = dayTicks + 1
    /\ lastCall' = NoCall
    /\ UNCHANGED <<scans, seenMarkets, analyzedPairs, scanTask, pairLog, pairHistory,
                   embeddings, calls, oppVars, tradeVars, wsVars, componentVars>>

NextState ==
    \/ CallMarkMarketSeen
    \/ CallSaveEmbedding
    \/ CallSavePairResult
    \/ CallCleanupEndedMarkets
    \/ CallAddOpportunity
    \/ CallMarkOpportunity
    \/ StateDaysPass

\* ------------------------------------------------------------------------
\* TradeStore driven on its own (call by call, as the backtests drive it)
\* ------------------------------------------------------------------------
\* the trade-path variables a TradeStore call leaves alone
detectorVars == <<minSeverity, telegramConfigured, nextTradeId, baselines, recentAlerts,
                  alertCount, alertCountResetTime, alertStore, totalAlerts, inflight,
                  received, detected, detectorLog, baselineLog, handed, delivered, failed>>

getCurrentTime == IF simulatedTime = <<>> THEN now ELSE simulatedTime[1]

\* Array.prototype.sort by timestamp, which is stable
RECURSIVE sortByTimestamp(_)
sortByTimestamp(q) ==
    IF q = <<>> THEN <<>>
    ELSE LET sorted == sortByTimestamp(SubSeq(q, 1, Len(q) - 1))
             x == q[Len(q)]
             before == {i \in 1..Len(sorted) : sorted[i].timestamp <= x.timestamp}
         IN SubSeq(sorted, 1, Cardinality(before)) \o <<x>>
              \o SubSeq(sorted, Cardinality(before) + 1, Len(sorted))

bulkAdd(store, marketId, trades, t) ==
    cleanupMarket([store EXCEPT ![marketId] = sortByTimestamp(@ \o trades)], marketId, t)

RECURSIVE cleanupAll(_, _, _)
cleanupAll(store, markets, t) ==
    IF markets = {} THEN store
    ELSE LET m == CHOOSE x \in markets : TRUE
         IN cleanupAll(cleanupMarket(store, m, t), markets \ {m}, t)

cleanup(store, t) == cleanupAll(store, DOMAIN store, t)

\* timestamps offered with a trade: the current time, or one hour before it
StoreTimestamps == {getCurrentTime, getCurrentTime - oneHour}

\* values offered to setSimulatedTime: the start, and just past the window
SimulatedTimes == {oneHour, oneHour + baselineWindowMs + 1}

\* clock advances offered: the whole window, and one millisecond more
StoreSteps == {baselineWindowMs, baselineWindowMs + 1}

StoreTrade(id, marketId, timestamp) ==
    [id |-> id, marketId |-> marketId, price |-> 10, sizeUsd |-> 100, side |-> "BUY",
     timestamp |-> timestamp]

StoreAddTrade ==
    /\ calls < MaxCalls
    /\ \E m \in Markets, ts \in StoreTimestamps :
          LET trade == StoreTrade(calls + 1, m, ts)
          IN /\ tradeStore' = addTrade(tradeStore, trade, getCurrentTime)
             /\ addedTrades' = addedTrades \cup {trade}
             /\ lastCall' = [op |-> "addTrade", trade |-> trade]
    /\ calls' = calls + 1
    /\ UNCHANGED <<now, ticks, detectorVars, wsVars, oppVars, scanVars, embeddings,
                   simulatedTime, statTrades, lowPriceBuys, incomplete,
                   alertStats, startAt, leaderYesPrice>>

\* historical trades are loaded newest first, as the data API returns them
StoreBulkAdd ==
    /\ calls + 2 <= MaxCalls
    /\ \E m \in Markets :
          LET trades == <<StoreTrade(calls + 1, m, getCurrentTime),
                          StoreTrade(calls + 2, m, getCurrentTime - oneHour)>>
          IN /\ tradeStore' = bulkAdd(tradeStore, m, trades, getCurrentTime)
             /\ addedTrades' = addedTrades \cup {trades[1], trades[2]}
             /\ lastCall' = [op |-> "bulkAdd", marketId |-> m]
    /\ calls' = calls + 2
    /\ UNCHANGED <<now, ticks, detectorVars, wsVars, oppVars, scanVars, embeddings,
                   simulatedTime, statTrades, lowPriceBuys, incomplete,
                   alertStats, startAt, leaderYesPrice>>

StoreCleanup ==
    /\ lastCall.op # "cleanup"
    /\ tradeStore' = cleanup(tradeStore, getCurrentTime)
    /\ lastCall' = [op |-> "cleanup"]
    /\ UNCHANGED <<now, ticks, detectorVars, wsVars, oppVars, scanVars, embeddings, calls,
                   simulatedTime, addedTrades, statTrades, lowPriceBuys, incomplete,
                   alertStats, startAt, leaderYesPrice>>

StoreSetSimulatedTime ==
    /\ \E t \in SimulatedTimes :
          /\ simulatedTime # <<t>>
          /\ simulatedTime' = <<t>>
    /\ lastCall' = [op |-> "setSimulatedTime"]
    /\ UNCHANGED <<now, ticks, tradeStore, detectorVars, wsVars, oppVars, scanVars,
                   embeddings, calls, addedTrades, statTrades, lowPriceBuys, incomplete,
                   alertStats, startAt, leaderYesPrice>>

\* the wall clock advances between two calls
StoreTick ==
    /\ ticks < MaxTicks
    /\ \E d \in StoreSteps : now' = now + d
    /\ ticks' = ticks + 1
    /\ lastCall' = NoCall
    /\ UNCHANGED <<tradeStore, detectorVars, wsVars, oppVars, scanVars, embeddings, calls,
                   componentVars>>

NextStore ==
    \/ StoreAddTrade
    \/ StoreBulkAdd
    \/ StoreCleanup
    \/ StoreSetSimulatedTime
    \/ StoreTick

\* ------------------------------------------------------------------------
\* The Percentile Tracker driven on its own (MarketStatsManager, and the
\* Anomaly Engine's detector that feeds it)
\* ------------------------------------------------------------------------
\* the binary search shared by insertSorted and countSmaller: the number of
\* elements before the first one that is not smaller than value
RECURSIVE lowerBound(_, _, _, _)
lowerBound(arr, value, left, right) ==
    IF ~(left < right) THEN left
    ELSE LET mid == (left + right) \div 2
         IN IF arr[mid + 1] < value
            THEN lowerBound(arr, value, mid + 1, right)
            ELSE lowerBound(arr, value, left, mid)

\* variant: the size is appended instead of being inserted in its place
insertSorted_appends(arr, value) == Append(arr, value)

insertSorted(arr, value) ==
    LET left == lowerBound(arr, value, 0, Len(arr))
    IN SubSeq(arr, 1, left) \o <<value>> \o SubSeq(arr, left + 1, Len(arr))

removeSorted(arr, value) ==
    IF \A i \in 1..Len(arr) : arr[i] # value THEN arr
    ELSE LET idx == CHOOSE i \in 1..Len(arr) :
                        arr[i] = value /\ \A j \in 1..(i - 1) : arr[j] # value
         IN SubSeq(arr, 1, idx - 1) \o SubSeq(arr, idx + 1, Len(arr))

\* variant: the sizes that are not smaller than value are counted (the rank)
countSmaller_countsRank(arr, value) == Len(arr) - lowerBound(arr, value, 0, Len(arr))

countSmaller(arr, value) == lowerBound(arr, value, 0, Len(arr))

isLowPriceBuy(trade) == trade.side = "BUY" /\ trade.price < lowPriceThresholdPct

\* MarketStats.addTrade on the tracker st = [trades, lowPriceBuys]
statsAddTrade(st, trade) ==
    LET pushed == Append(st.trades, trade)
        tracked == IF isLowPriceBuy(trade)
                   THEN insertSorted(st.lowPriceBuys, trade.sizeUsd)
                   ELSE st.lowPriceBuys
    IN IF Len(pushed) > maxSamples
       THEN [trades |-> Tail(pushed),
             lowPriceBuys |-> IF isLowPriceBuy(Head(pushed))
                              THEN removeSorted(tracked, Head(pushed).sizeUsd)
                              ELSE tracked]
       ELSE [trades |-> pushed, lowPriceBuys |-> tracked]

\* MarketStats.getPercentile: percentile is the fraction smaller / n
getPercentile(arr, sizeUsd) ==
    LET n == Len(arr)
    IN IF n < minSamples
       THEN [smaller |-> 0, n |-> 1, severity |-> "NONE"]
       ELSE LET smallerCount == countSmaller(arr, sizeUsd)
                atLeast(pct) == smallerCount * 100 >= pct * n
            IN [smaller |-> smallerCount, n |-> n,
                severity |-> IF atLeast(criticalPercentilePct) THEN "CRITICAL"
                             ELSE IF atLeast(highPercentilePct) THEN "HIGH"
                             ELSE IF atLeast(mediumPercentilePct) THEN "MEDIUM"
                             ELSE "NONE"]

\* MarketStats.shouldAlert; "NONE" stands for null
shouldAlert(arr, sizeUsd, price, side) ==
    IF side # "BUY" \/ price >= lowPriceThresholdPct THEN "NONE"
    ELSE getPercentile(arr, sizeUsd).severity

Tracker(m) == [trades |-> statTrades[m], lowPriceBuys |-> lowPriceBuys[m]]

\* trades offered to the tracker: price in percent of 1.00, size in USD
StatInputs ==
    { [side |-> "BUY",  price |-> 10, sizeUsd |-> 1],
      [side |-> "BUY",  price |-> 10, sizeUsd |-> 2],
      [side |-> "BUY",  price |-> 30, sizeUsd |-> 2],
      [side |-> "SELL", price |-> 10, sizeUsd |-> 2] }

\* TradeRecord built by MarketStatsManager.addTrade; the timestamp is the
\* arrival number, so that no two records are equal
TradeRecord(in) ==
    [sizeUsd |-> in.sizeUsd, price |-> in.price, timestamp |-> calls + 1, side |-> in.side]

\* MarketStatsManager.addTrade, called directly (as the backtests do)
StatsAddTrade ==
    /\ calls < MaxStatCalls
    /\ \E m \in Markets, in \in StatInputs :
          LET st == statsAddTrade(Tracker(m), TradeRecord(in))
          IN /\ statTrades' = [statTrades EXCEPT ![m] = st.trades]
             /\ lowPriceBuys' = [lowPriceBuys EXCEPT ![m] = st.lowPriceBuys]
             /\ lastCall' = [op |-> "addTrade", marketId |-> m, trade |-> TradeRecord(in),
                             before |-> Tracker(m)]
    /\ calls' = calls + 1
    /\ UNCHANGED <<tradeVars, wsVars, oppVars, scanVars, embeddings, simulatedTime,
                   addedTrades, incomplete,
                   alertStats, startAt, leaderYesPrice>>

\* AnomalyEngine.detectUnusualLowPriceBuy for one trade of the stream
StatsDetectUnusualLowPriceBuy ==
    /\ calls < MaxStatCalls
    /\ \E m \in Markets, in \in StatInputs :
          IF in.side # "BUY"
          THEN /\ lastCall' = [op |-> "detectUnusualLowPriceBuy", marketId |-> m,
                               trade |-> TradeRecord(in), before |-> Tracker(m),
                               result |-> "NONE"]
               /\ UNCHANGED <<statTrades, lowPriceBuys>>
          ELSE LET st == statsAddTrade(Tracker(m), TradeRecord(in))
               IN /\ statTrades' = [statTrades EXCEPT ![m] = st.trades]
                  /\ lowPriceBuys' = [lowPriceBuys EXCEPT ![m] = st.lowPriceBuys]
                  /\ lastCall' = [op |-> "detectUnusualLowPriceBuy", marketId |-> m,
                                  trade |-> TradeRecord(in), before |-> Tracker(m),
                                  result |-> shouldAlert(st.lowPriceBuys, in.sizeUsd,
                                                         in.price, in.side)]
    /\ calls' = calls + 1
    /\ UNCHANGED <<tradeVars, wsVars, oppVars, scanVars, embeddings, simulatedTime,
                   addedTrades, incomplete,
                   alertStats, startAt, leaderYesPrice>>

NextStats ==
    \/ StatsAddTrade
    \/ StatsDetectUnusualLowPriceBuy

\* ------------------------------------------------------------------------
\* The trade path fed with events as they come off the wire: every field of
\* an event is a string, or is missing
\* ------------------------------------------------------------------------
\* a missing field (undefined) is the empty sequence, a present one <<string>>
Missing == <<>>

\* parseFloat on the numeric strings of the events; prices come out in
\* percent of 1.00, sizes in shares
parseFloat ==
    [str \in {"0", "0.10", "0.11", "1000", "100000"} |->
        CASE str = "0" -> 0
          [] str = "0.10" -> 10
          [] str = "0.11" -> 11
          [] str = "1000" -> 1000
          [] str = "100000" -> 100000]

toUpperCase == [str \in {"buy", "sell", "BUY", "SELL"} |->
                  IF str \in {"buy", "BUY"} THEN "BUY" ELSE "SELL"]

\* event.field || '0'
OrZero(field) == IF field = Missing THEN "0" ELSE field[1]

\* the SmartMoneyTrade handleTradeEvent builds from an event; pct is the
\* verdict of the market's Percentile Tracker for the resulting size
parseTrade(event) ==
    [price |-> parseFloat[OrZero(event.price)],
     sizeUsd |-> (parseFloat[OrZero(event.price)] * parseFloat[OrZero(event.size)]) \div 100,
     side |-> IF event.side = Missing THEN "BUY" ELSE toUpperCase[event.side[1]],
     pct |-> event.pct]

\* Trade events offered to the model: a complete one, and one without each
\* of side, price and size.
RawInputs ==
    { [price |-> <<"0.10">>, size |-> <<"1000">>,   side |-> <<"buy">>,  pct |-> "NONE"],
      [price |-> <<"0.10">>, size |-> <<"100000">>, side |-> Missing,    pct |-> "HIGH"],
      [price |-> Missing,    size |-> <<"1000">>,   side |-> <<"SELL">>, pct |-> "NONE"],
      [price |-> <<"0.11">>, size |-> Missing,      side |-> <<"sell">>, pct |-> "NONE"] }

LacksField(event) == Missing \in {event.price, event.size, event.side}

\* a WebSocket message with one raw trade event or an array of them
WsMessageRaw ==
    \E n \in 1..MaxBatch :
        /\ nextTradeId + n - 1 <= MaxTrades
        /\ \E markets \in [1..n -> Markets], raw \in [1..n -> RawInputs] :
              /\ InstallDetector(handleWsMessage(
                    [St EXCEPT !.received = @ \o markets],
                    [i \in 1..n |-> [marketId |-> markets[i], in |-> parseTrade(raw[i])]]))
              /\ incomplete' = incomplete
                                 \cup {nextTradeId + i - 1 : i \in {j \in 1..n : LacksField(raw[j])}}
              /\ UNCHANGED <<embeddings, calls, lastCall, simulatedTime, addedTrades,
                             statTrades, lowPriceBuys, alertStats, startAt, leaderYesPrice>>

NextFeed == WsMessageRaw \/ NotifierOk \/ NotifierFails \/ Tick

\* ------------------------------------------------------------------------
\* The Alert Store driven on its own (constructed from its file, then add
\* by add)
\* ------------------------------------------------------------------------
oneDay == 24 * oneHour

sevenDays == 7 * oneDay

\* AlertStore.updateStats at time t; lastUpdated is the time of the update
updateStats(alerts, t) ==
    LET count(P(_)) == Cardinality({i \in 1..Len(alerts) : P(alerts[i])})
        types == {alerts[i].type : i \in 1..Len(alerts)}
        severities == {alerts[i].severity : i \in 1..Len(alerts)}
    IN [byType |-> [type \in types |-> count(LAMBDA a : a.type = type)],
        bySeverity |-> [sev \in severities |-> count(LAMBDA a : a.severity = sev)],
        last24h |-> count(LAMBDA a : t - a.timestamp < oneDay),
        last7d |-> count(LAMBDA a : t - a.timestamp < sevenDays),
        lastUpdated |-> t]

\* an alerts file as an earlier run saved it: n alerts, newest first
AlertFile(n) ==
    [i \in 1..n |-> [id |-> <<"m1", "LARGE_TRADE", n - i>>, type |-> "LARGE_TRADE",
                     marketId |-> "m1", severity |-> "MEDIUM", timestamp |-> n - i]]

\* the files offered to the constructor: none, one alert short of the bound,
\* and full
AlertFileSizes == {0, maxAlerts - 1, maxAlerts}

\* anomalies offered to addAlert
StoreAnomalies ==
    {Anomaly(type, [marketId |-> m, timestamp |-> now, id |-> calls + 1], "HIGH")[1] :
        type \in {"LARGE_TRADE", "VOLUME_SPIKE"}, m \in Markets}

\* new AlertStore(): this.data = this.load()
AlertStoreLoad ==
    /\ lastCall = NoCall
    /\ calls = 0
    /\ ticks = 0
    /\ \E n \in AlertFileSizes :
          /\ alertStore' = AlertFile(n)
          /\ totalAlerts' = n
          /\ alertStats' = updateStats(AlertFile(n), n)
    /\ lastCall' = [op |-> "load"]
    /\ UNCHANGED <<now, ticks, minSeverity, telegramConfigured, nextTradeId, tradeStore,
                   baselines, recentAlerts, alertCount, alertCountResetTime, inflight,
                   received, detected, detectorLog, baselineLog, handed, delivered, failed,
                   wsVars, oppVars, scanVars, embeddings, calls, simulatedTime, addedTrades,
                   statTrades, lowPriceBuys, incomplete,
                   startAt, leaderYesPrice>>

\* AlertStore.addAlert, with the save() that ends it
AlertStoreAdd ==
    /\ lastCall # NoCall
    /\ calls < MaxCalls
    /\ \E anomaly \in StoreAnomalies :
          LET s == addAlert(St, anomaly)
          IN /\ alertStore' = s.alertStore
             /\ totalAlerts' = s.totalAlerts
             /\ alertStats' = updateStats(s.alertStore, now)
             /\ lastCall' = [op |-> "addAlert", anomaly |-> anomaly, before |-> alertStore,
                             totalBefore |-> totalAlerts]
    /\ calls' = calls + 1
    /\ UNCHANGED <<now, ticks, minSeverity, telegramConfigured, nextTradeId, tradeStore,
                   baselines, recentAlerts, alertCount, alertCountResetTime, inflight,
                   received, detected, detectorLog, baselineLog, handed, delivered, failed,
                   wsVars, oppVars, scanVars, embeddings, simulatedTime, addedTrades,
                   statTrades, lowPriceBuys, incomplete,
                   startAt, leaderYesPrice>>

NextAlertStore == AlertStoreLoad \/ AlertStoreAdd \/ Tick

\* ------------------------------------------------------------------------
\* The HealthServer beside the running detector: trade messages, and the
\* three GET handlers on the detector's AlertManager and AlertStore
\* ------------------------------------------------------------------------
\* Install for a handler that may have stored alerts: every addAlert ends
\* with save(), which recomputes the stored statistics
InstallSaved(s) ==
    /\ InstallDetector(s)
    /\ alertStats' = IF s.alertStore # alertStore
                     THEN updateStats(s.alertStore, now)
                     ELSE alertStats
    /\ UNCHANGED <<embeddings, calls, lastCall, simulatedTime, addedTrades, statTrades,
                   lowPriceBuys, incomplete,
                   startAt, leaderYesPrice>>

\* SmartMoneyDetector.getStats: the TradeStore's and the BaselineCalculator's
\* getStats only read; AlertManager.getStats resets the hourly counter
detectorGetStats(s) == resetAlertCountIfNeeded(s)

\* a WebSocket message with one trade event or an array of them
HealthWsMessage ==
    \E n \in 1..MaxBatch :
        /\ nextTradeId + n - 1 <= MaxTrades
        /\ \E events \in [1..n -> WsEvents] :
              InstallSaved(handleWsMessage(
                  [St EXCEPT !.received = @ \o [i \in 1..n |-> events[i].marketId]],
                  events))

\* HealthServer.handleHealth
GetHealth ==
    /\ lastCall.op # "GET /health"
    /\ InstallDetector(detectorGetStats(St))
    /\ lastCall' = [op |-> "GET /health"]
    /\ UNCHANGED <<embeddings, calls, componentVars>>

\* HealthServer.handleStats
GetStats ==
    /\ lastCall.op # "GET /stats"
    /\ InstallDetector(detectorGetStats(St))
    /\ alertStats' = updateStats(alertStore, now)
    /\ lastCall' = [op |-> "GET /stats"]
    /\ UNCHANGED <<embeddings, calls, simulatedTime, addedTrades, statTrades, lowPriceBuys,
                   incomplete,
                   startAt, leaderYesPrice>>

\* HealthServer.handleAlerts
GetAlerts ==
    /\ lastCall.op # "GET /alerts"
    /\ lastCall' = [op |-> "GET /alerts"]
    /\ UNCHANGED <<tradeVars, wsVars, oppVars, scanVars, embeddings, calls, componentVars>>

GetRequest == GetHealth \/ GetStats \/ GetAlerts

NextHealth == HealthWsMessage \/ Tick \/ GetHealth \/ GetStats \/ GetAlerts

\* ------------------------------------------------------------------------
\* start() and stop() as methods of SmartMoneyDetector: start() awaits the
\* market fetch and the baseline warm-up before it connects, and stop() can
\* be called at any of these points
\* ------------------------------------------------------------------------
\* start() up to `await this.fetchActiveMarkets()`
StartCalled ==
    /\ process = "alive"
    /\ startAt = "idle"
    /\ running' = TRUE
    /\ startAt' = "fetch"
    /\ lastEvent' = "start"
    /\ UNCHANGED <<wsClock, started, process, sockets, ws, connectTimers, reconnectTimers,
                   reconnectTimeout, nextTimer, monitoredMarkets, closes, tradeVars,
                   oppVars, scanVars, embeddings, calls, lastCall, simulatedTime,
                   addedTrades, statTrades, lowPriceBuys, incomplete, alertStats,
                   leaderYesPrice>>

\* start() from the end of the fetch to `await this.connectWebSocket()`:
\* it returns if the filter kept nothing, else it stores the markets, warms
\* the baselines up and connects; this.running is not read again
StartResumes ==
    \E filtered \in SUBSET Markets :
        /\ process = "alive"
        /\ startAt = "fetch"
        /\ IF filtered = {}
           THEN /\ startAt' = "returned"
                /\ UNCHANGED <<sockets, ws, connectTimers, monitoredMarkets>>
           ELSE /\ startAt' = "connect"
                /\ monitoredMarkets' = filtered
                /\ connectWebSocket
        /\ lastEvent' = "fetched"
        /\ UNCHANGED <<wsClock, running, started, process, reconnectTimers,
                       reconnectTimeout, nextTimer, closes, tradeVars, oppVars, scanVars,
                       embeddings, calls, lastCall, simulatedTime, addedTrades,
                       statTrades, lowPriceBuys, incomplete, alertStats,
                   leaderYesPrice>>

\* stop(), called on the detector at any time after start() was called
StopCalled ==
    /\ process = "alive"
    /\ startAt # "idle"
    /\ running' = FALSE
    /\ reconnectTimers' = {t \in reconnectTimers : t.id # reconnectTimeout}
    /\ reconnectTimeout' = 0
    /\ sockets' = IF ws # 0 /\ sockets[ws].state \in {"CONNECTING", "OPEN"}
                  THEN [sockets EXCEPT ![ws].state = "CLOSING"]
                  ELSE sockets
    /\ ws' = 0
    /\ lastEvent' = "stop"
    /\ UNCHANGED <<wsClock, started, process, connectTimers, nextTimer, monitoredMarkets,
                   closes, tradeVars, oppVars, scanVars, embeddings, calls, lastCall,
                   componentVars>>

NextLifecycle ==
    \/ StartCalled
    \/ StartResumes
    \/ StopCalled
    \/ SocketOpen
    \/ SocketError
    \/ SocketClose
    \/ ReconnectTimerFires
    \/ ConnectTimerFires
    \/ TickWs

\* ------------------------------------------------------------------------
\* The agent as main() runs it in continuous mode: the scan and
\* checkLeaderResolutions are the periodic tasks it schedules.  Every
\* resolution check returns here before the timer fires again.
\* ------------------------------------------------------------------------
\* the leader of a tracked Opportunity, not resolved, reports another YES price
LeaderPriceMoves ==
    \E id \in {opportunities[i].id : i \in 1..Len(opportunities)} \ marketResolved :
        \E p \in YesPrices \ {leaderYesPrice[id]} :
            /\ leaderYesPrice' = [leaderYesPrice EXCEPT ![id] = p]
            /\ UNCHANGED <<tradeVars, wsVars, oppVars, scanVars, embeddings, calls,
                           lastCall, simulatedTime, addedTrades, statTrades, lowPriceBuys,
                           incomplete, alertStats, startAt>>

NextService ==
    \/ AddOpportunity
    \/ LeaderPriceMoves
    \/ MarketResolves
    \/ StartResolutionCheck
    \/ ResolutionFetched
    \/ ResolutionNotified
    \/ ResolutionDelayDone

\* ------------------------------------------------------------------------
\* Specifications
\* ------------------------------------------------------------------------
Init == InitTrade /\ InitWs /\ InitOpp /\ InitScan /\ InitUnit

Spec == Init /\ [][NextTrade]_vars

InitIdleTrade == TradeIdle /\ InitWs /\ InitOpp /\ InitScan /\ InitUnit

SpecWs == InitIdleTrade /\ [][NextWs]_vars

SpecOpp == InitIdleTrade /\ [][NextOpp]_vars

\* the service starts from a state file that holds opportunities
InitLoaded == TradeIdle /\ InitWs /\ InitMonitor /\ InitScan /\ InitUnit

SpecMonitor == InitLoaded /\ [][NextMonitor]_vars

SpecScan == InitIdleTrade /\ [][NextScan]_vars

SpecState == InitIdleTrade /\ [][NextState]_vars

SpecStore == InitIdleTrade /\ [][NextStore]_vars

SpecStats == InitIdleTrade /\ [][NextStats]_vars

SpecFeed == Init /\ [][NextFeed]_vars

SpecAlertStore == InitIdleTrade /\ [][NextAlertStore]_vars

SpecHealth == InitIdleTrade /\ [][NextHealth]_vars

SpecLifecycle == InitIdleTrade /\ [][NextLifecycle]_vars

\* the service under the scheduling of Node.js: the resolution timer of
\* main() fires again and again, and every awaited fetch, notification
\* and pause returns
SpecService ==
    /\ InitLoaded
    /\ [][NextService]_vars
    /\ WF_vars(StartResolutionCheck)
    /\ WF_vars(ResolutionFetched)
    /\ WF_vars(ResolutionNotified)
    /\ WF_vars(ResolutionDelayDone)

\* ------------------------------------------------------------------------
\* Properties of the trade path
\* ------------------------------------------------------------------------
SeverityRank(sev) == CASE sev = "LOW" -> 0
                       [] sev = "MEDIUM" -> 1
                       [] sev = "HIGH" -> 2
                       [] sev = "CRITICAL" -> 3

\* trade ids of market m in arrival order
ReceivedIds(m) == SelectSeq([i \in 1..Len(received) |-> i], LAMBDA id : received[id] = m)

StoreIds(m) == [i \in 1..Len(tradeStore[m]) |-> tradeStore[m][i].id]

IsIncreasing(q) == \A i, j \in 1..Len(q) : i < j => q[i] < q[j]

\* C1: any two delivered and persisted alerts with the same dedup key
\* marketId:type are at least alertCooldown apart.
C1_CooldownPerKey ==
    \A i, j \in 1..Len(delivered) :
        (i < j /\ alertKey(delivered[i].anomaly) = alertKey(delivered[j].anomaly))
            => delivered[j].at - delivered[i].at >= alertCooldownMs

\* C2: every interval of one hour that starts at a delivery holds at most
\* maxAlertsPerHour deliveries (hence so does every rolling one-hour window).
C2_RollingHourLimit ==
    \A i \in 1..Len(delivered) :
        Cardinality({j \in 1..Len(delivered) :
                        /\ delivered[j].at >= delivered[i].at
                        /\ delivered[j].at < delivered[i].at + oneHour}) <= MaxAlertsPerHour

\* C3: per market, anomalies reach sendAnomalyAlert in the receive order of
\* their trades: none of trade t is handed over after one of a later trade.
C3_HandedInReceiveOrder ==
    \A i, j \in 1..Len(handed) :
        (i < j /\ handed[i].marketId = handed[j].marketId)
            => handed[i].tradeId <= handed[j].tradeId

\* C7 (as stated): a send whose delivery failed has left the dedup timestamp,
\* the Alert Store and the hourly counter as they were when it was called.
C7_FailedSendChangesNothing ==
    /\ \A k \in DOMAIN recentAlerts :
          \E i \in 1..Len(delivered) :
              alertKey(delivered[i].anomaly) = k /\ delivered[i].at = recentAlerts[k]
    /\ totalAlerts = Len(delivered)
    /\ \A f \in failed : f.counterAtAwait = f.counterAtCall

\* C7 (amended): a failed send never sets a dedup timestamp, never adds to the
\* Alert Store and never increments the hourly counter: dedup timestamps are
\* times of successful deliveries of their key, the store holds exactly the
\* delivered alerts, the counter counts at most the deliveries since its last
\* reset, and the only change a failed send makes to the counter is the
\* hourly reset to zero that precedes the notifier call.
C7_FailedSendFrame ==
    /\ \A k \in DOMAIN recentAlerts :
          \E i \in 1..Len(delivered) :
              alertKey(delivered[i].anomaly) = k /\ delivered[i].at = recentAlerts[k]
    /\ totalAlerts = Len(delivered)
    /\ Len(alertStore) = Len(delivered)
    /\ \A i \in 1..Len(delivered) :
          LET a == alertStore[Len(delivered) + 1 - i]
              d == delivered[i].anomaly
          IN a.marketId = d.marketId /\ a.type = d.type /\ a.timestamp = d.timestamp
    /\ alertCount <= Cardinality({i \in 1..Len(delivered) : delivered[i].at >= alertCountResetTime})
    /\ \A f \in failed : f.counterAtAwait \in {f.counterAtCall, 0}

\* a failed send is followed, within the cooldown, by a delivery for the same key
C7_Witness ==
    \E f \in failed : \E i \in 1..Len(delivered) :
        /\ alertKey(delivered[i].anomaly) = alertKey(f.anomaly)
        /\ delivered[i].anomaly.tradeId > f.anomaly.tradeId
        /\ delivered[i].at >= f.at
        /\ delivered[i].at - f.at < alertCooldownMs

\* C8: every anomaly that reaches the Alert Manager, the notifier or the
\* Alert Store has severity >= minSeverity in LOW < MEDIUM < HIGH < CRITICAL.
C8_EmittedMeetMinSeverity ==
    /\ \A i \in 1..Len(handed) : SeverityRank(handed[i].severity) >= SeverityRank(minSeverity)
    /\ \A task \in inflight : SeverityRank(task.cur.severity) >= SeverityRank(minSeverity)
    /\ \A i \in 1..Len(delivered) :
          SeverityRank(delivered[i].anomaly.severity) >= SeverityRank(minSeverity)
    /\ \A i \in 1..Len(alertStore) :
          SeverityRank(alertStore[i].severity) >= SeverityRank(minSeverity)

\* a trade with one anomaly below minSeverity and one at it: only the latter is stored
C8_Witness ==
    \E id \in DOMAIN detected :
        /\ \E i \in 1..Len(detected[id]) :
              SeverityRank(detected[id][i].severity) < SeverityRank(minSeverity)
        /\ \E i \in 1..Len(alertStore) : \E k \in 1..Len(detected[id]) :
              /\ alertStore[i].type = detected[id][k].type
              /\ alertStore[i].marketId = detected[id][k].marketId
              /\ alertStore[i].timestamp = detected[id][k].timestamp

\* C9: a trade enters the baseline only if checkAllAnomalies returned no
\* anomaly for it, whatever minSeverity is.
C9_BaselineOnlyWithoutAnomaly ==
    \A m \in Markets : \A i \in 1..Len(baselineLog[m]) :
        detected[baselineLog[m][i]] = <<>>

\* C10: per market, Trade Store inserts and detector invocations happen in
\* exactly the receive order, and baseline updates in receive order.
C10_PerMarketOrder ==
    \A m \in Markets :
        /\ StoreIds(m) = ReceivedIds(m)
        /\ detectorLog[m] = ReceivedIds(m)
        /\ IsIncreasing(baselineLog[m])
        /\ \A i \in 1..Len(baselineLog[m]) : received[baselineLog[m][i]] = m

\* a later trade of a market has been stored, checked and added to the
\* baseline while a delivery for an earlier trade of the market is in flight
C10_Witness ==
    \E task \in inflight :
        LET m == task.trade.marketId
        IN /\ \E i \in 1..Len(baselineLog[m]) : baselineLog[m][i] > task.trade.id
           /\ \E i \in 1..Len(detectorLog[m]) : detectorLog[m][i] > task.trade.id
           /\ \E i \in 1..Len(tradeStore[m]) : tradeStore[m][i].id > task.trade.id

\* ------------------------------------------------------------------------
\* Properties of the Opportunity state
\* ------------------------------------------------------------------------
\* C4: an Opportunity's status never moves backward along
\* active -> threshold_triggered -> resolved.
C4_StatusMonotone ==
    [][\A i \in 1..Len(opportunities) :
          /\ opportunities[i].status = "resolved"
                => opportunities'[i].status = "resolved"
          /\ opportunities[i].status = "threshold_triggered"
                => opportunities'[i].status # "active"]_vars

\* C11: a NEAR_CERTAINTY event is handed over, and its opportunity marked
\* threshold_triggered, only at a leader YES price >= the threshold and while
\* the opportunity's status is still active.
C11_NearCertaintyOnlyWhenActive ==
    \A e \in DOMAIN emitted :
        e.kind = "NEAR_CERTAINTY" =>
            e.price >= NEAR_CERTAINTY_THRESHOLD /\ e.status = "active"

\* C12: a CASCADE event is handed over, and its opportunity marked
\* threshold_triggered, only for an opportunity of the trigger's non-empty
\* series whose leader ends strictly later and whose status is active then;
\* no other opportunity is marked by the threshold check.
C12_CascadeOnlyLaterActiveSiblings ==
    /\ \A e \in DOMAIN emitted :
          e.kind = "CASCADE" =>
              /\ Opp(e.id).seriesId # ""
              /\ Opp(e.id).seriesId = Opp(e.trigger).seriesId
              /\ Opp(e.id).leaderEnd > Opp(e.trigger).leaderEnd
              /\ e.status = "active"
    /\ \A i \in 1..Len(opportunities) :
          opportunities[i].thresholdTriggered =>
              EventCount("NEAR_CERTAINTY", opportunities[i].id)
                  + EventCount("CASCADE", opportunities[i].id) > 0

\* S6: three opportunities of one series were tracked and active when the
\* threshold check saw the leader of the January one at 0.92; the leaders of
\* the other two were never seen at the threshold, no leader resolved, and the
\* check has finished with the January opportunity.
C13_Scenario ==
    /\ Len(opportunities) = 3
    /\ \A i \in 1..3 : /\ opportunities[i].seriesId = "s1"
                        /\ ~opportunities[i].leaderResolved
    /\ \E e \in DOMAIN emitted :
          /\ e.kind = "NEAR_CERTAINTY" /\ e.id = "o1" /\ e.price = 92
          /\ e.status = "active" /\ e.tracked = 3
    /\ EventCount("NEAR_CERTAINTY", "o2") = 0
    /\ EventCount("NEAR_CERTAINTY", "o3") = 0
    /\ \A e \in DOMAIN emitted : e.kind # "LEADER_RESOLVED"
    /\ IF thresholdTask.phase \in {"notifyHit", "cascade"}
       THEN Head(thresholdTask.queue) # "o1"
       ELSE TRUE

\* C13: in scenario S6 the January opportunity is threshold_triggered with one
\* NEAR_CERTAINTY event and no CASCADE event of its own, and the February and
\* March opportunities are threshold_triggered with exactly one CASCADE each.
C13_CascadeScenario ==
    C13_Scenario =>
        /\ \A i \in 1..3 : opportunities[i].status = "threshold_triggered"
        /\ EventCount("NEAR_CERTAINTY", "o1") = 1
        /\ EventCount("CASCADE", "o1") = 0
        /\ EventCount("CASCADE", "o2") = 1
        /\ EventCount("CASCADE", "o3") = 1

\* scenario S6 has happened and the threshold check has returned
C13_Witness == C13_Scenario /\ thresholdTask.phase = "idle"

\* C14: LEADER_RESOLVED is handed over at most once per opportunity, plus once
\* for every crash that fell between its hand-over and markLeaderResolved.
C14_LeaderResolvedAtMostOnce ==
    \A id \in OppIds :
        EventCount("LEADER_RESOLVED", id)
            <= 1 + Cardinality({i \in 1..Len(crashes) : id \in crashes[i]})

\* C15: when the leader is resolved or closed and its outcome parses to neither
\* YES nor NO, the iteration hands over no event, leaves every opportunity as
\* it was (an unresolved one is in the next check's list again) and goes on to
\* the pause.
C15_UnclearOutcomeLeavesUnresolved ==
    [][\A k \in Checks :
          (resolutionTask[k].phase = "fetch" /\ resolutionTask'[k].log = "outcome unclear")
              => /\ emitted' = emitted
                 /\ opportunities' = opportunities
                 /\ getUnresolvedOpportunities(opportunities')
                        = getUnresolvedOpportunities(opportunities)
                 /\ resolutionTask'[k].phase = "delay"]_vars

\* a check has just found the closed leader of an unresolved opportunity with
\* an unclear outcome, and no LEADER_RESOLVED was handed over for it
C15_Witness ==
    \E k \in Checks :
        /\ resolutionTask[k].phase = "delay"
        /\ resolutionTask[k].log = "outcome unclear"
        /\ Head(resolutionTask[k].queue) \in marketResolved
        /\ ~Opp(Head(resolutionTask[k].queue)).leaderResolved
        /\ Opp(Head(resolutionTask[k].queue)).status = "active"
        /\ EventCount("LEADER_RESOLVED", Head(resolutionTask[k].queue)) = 0

\* ------------------------------------------------------------------------
\* Properties of the socket lifecycle
\* ------------------------------------------------------------------------
\* C5: once started and while running, every socket close is followed by a
\* new connection attempt reconnectDelayMs later, and a socket that opened has
\* been sent subscriptions for both tokens of every market monitored then.
C5_ReconnectAndResubscribe ==
    /\ \A c \in closes :
          (started /\ running /\ wsClock > c + reconnectDelayMs)
              => \E k \in 1..Len(sockets) : sockets[k].createdAt = c + reconnectDelayMs
    /\ \A k \in 1..Len(sockets) :
          Tokens(sockets[k].monitoredAtOpen) \subseteq sockets[k].subscribed

\* C6: once started and while running, the process is alive and has a socket
\* that is connecting, open or about to report its close, or a scheduled
\* reconnect, whatever transport emitted have happened.
C6_ReceiveLoopSurvives ==
    (started /\ running) =>
        /\ process = "alive"
        /\ \/ \E k \in 1..Len(sockets) : sockets[k].state \in {"CONNECTING", "OPEN", "CLOSING"}
           \/ reconnectTimers # {}

\* ------------------------------------------------------------------------
\* Properties of the discovery pipeline
\* ------------------------------------------------------------------------
\* a discovery scan has ended and none is under way
ScanEnded == scanTask.phase = "idle" /\ scans > 0

\* C16 (as stated): at the end of every discovery scan, a pair has an
\* AnalyzedPair entry if and only if it was submitted for LLM evaluation and
\* its entry has not been purged by cleanup since.
C16_EntryIffSubmitted ==
    ScanEnded =>
        \A p \in CanonicalPairs : p \in DOMAIN analyzedPairs <=> pairHistory[p].submitted

\* C16 (amended): at the end of every discovery scan, a pair has an
\* AnalyzedPair entry if and only if a reply of the LLM for it was parsed and
\* the entry written then has not been purged by cleanup since.
C16_EntryIffEvaluated ==
    ScanEnded =>
        \A p \in CanonicalPairs : p \in DOMAIN analyzedPairs <=> pairHistory[p].evaluated

\* a scan ends with one pair evaluated and cached, one whose entry was purged
\* and one that was submitted and has no entry
C16_Witness ==
    /\ ScanEnded
    /\ \E p \in CanonicalPairs : pairHistory[p].evaluated /\ p \in DOMAIN analyzedPairs
    /\ \E p \in CanonicalPairs : pairHistory[p].purged /\ p \notin DOMAIN analyzedPairs
    /\ \E p \in CanonicalPairs :
          /\ pairHistory[p].submitted
          /\ ~pairHistory[p].evaluated
          /\ p \notin DOMAIN analyzedPairs

C18_UnparsedReplySkipsPair ==
    [][(/\ scanTask.phase = "pairs"
        /\ scanTask.queue # <<>>
        /\ scanTask' # scanTask
        /\ \A e \in pairLog' : e.how = "llm" /\ ~e.parsed)
          => /\ analyzedPairs' = analyzedPairs
             /\ seenMarkets' = seenMarkets
             /\ opportunities' = opportunities
             /\ scanTask'.relationships = scanTask.relationships
             /\ scanTask'.phase = "pairs"
             /\ scanTask'.group = scanTask.group
             /\ scanTask'.queue = Tail(scanTask.queue)]_vars

\* in the first scan a pair's reply did not parse, the pair has no entry, and
\* a pair that comes after it in the loops was evaluated and cached
C18_Witness ==
    /\ scans = 0
    /\ scanTask.phase \in {"pairs", "cleanup"}
    /\ LET order == PairIndices(Len(scanTask.group), 1, 2)
           pairAt(i) == canonicalPairId(scanTask.group[order[i][1]].id,
                                        scanTask.group[order[i][2]].id)
       IN \E i, j \in 1..Len(order) :
             /\ i < j
             /\ pairHistory[pairAt(i)].submitted
             /\ ~pairHistory[pairAt(i)].evaluated
             /\ pairAt(i) \notin DOMAIN analyzedPairs
             /\ pairHistory[pairAt(j)].evaluated
             /\ pairAt(j) \in DOMAIN analyzedPairs

\* C19: every Opportunity the discovery pipeline registered has a
\* relationshipType of SAME_OUTCOME or DIFFERENT_OUTCOME and a
\* confidenceScore of at least 0.5.
C19_RegisteredAreActionable ==
    \A i \in 1..Len(opportunities) :
        /\ opportunities[i].relation.relationshipType \in {"SAME_OUTCOME", "DIFFERENT_OUTCOME"}
        /\ opportunities[i].relation.confidenceScore >= MIN_CONFIDENCE

\* the end time of market id of a relation
EndOf(relation, id) ==
    IF id = relation.market1.id THEN relation.market1.endTime ELSE relation.market2.endTime

EndedLongAgo ==
    {m \in DOMAIN seenMarkets :
        seenMarkets[m].endTime # 0 /\ seenMarkets[m].endTime + MARKET_RETENTION_DAYS < today}

\* C21: when cleanupEndedMarkets has returned, no seen market has an end time
\* older than the retention, no market it purged has a SeenMarket or an
\* Embedding entry, and no pair with a market it purged has an AnalyzedPair
\* entry.
C21_CleanupLeavesNoStaleEntry ==
    lastCall.op = "cleanupEndedMarkets" =>
        /\ EndedLongAgo = {}
        /\ \A m \in lastCall.purged : m \notin DOMAIN seenMarkets /\ m \notin embeddings
        /\ \A m \in lastCall.purged : \A other \in StateIds :
              canonicalPairId(m, other) \notin DOMAIN analyzedPairs

\* C22: after savePairResult(id1, id2, r, c), isPairAnalyzed holds for the
\* two ids in either order and getPairResult returns the same entry for
\* either order.
C22_PairCacheIsSymmetric ==
    lastCall.op = "savePairResult" =>
        /\ isPairAnalyzed(analyzedPairs, lastCall.id1, lastCall.id2)
        /\ isPairAnalyzed(analyzedPairs, lastCall.id2, lastCall.id1)
        /\ getPairResult(analyzedPairs, lastCall.id1, lastCall.id2)
              = getPairResult(analyzedPairs, lastCall.id2, lastCall.id1)

\* a result was saved for two ids given in descending sort order, one of
\* them with a hyphen, and is returned for the ids in ascending order
C22_Witness ==
    /\ lastCall.op = "savePairResult"
    /\ StringLess(lastCall.id2, lastCall.id1)
    /\ "-" \in {lastCall.id1[i] : i \in 1..Len(lastCall.id1)}
    /\ lastCall.result = "SAME_OUTCOME"
    /\ getPairResult(analyzedPairs, lastCall.id2, lastCall.id1).result = "SAME_OUTCOME"

\* C23: after addOpportunity(r) exactly one Opportunity has the id
\* market1Id-market2Id, and a call for a relation that is tracked already
\* leaves every Opportunity, with its status, resolved flag and threshold
\* flag, as it was.
C23_AddOpportunityIdempotent ==
    lastCall.op = "addOpportunity" =>
        LET id == join(lastCall.relation.market1.id, lastCall.relation.market2.id)
        IN /\ Cardinality({i \in 1..Len(opportunities) : opportunities[i].id = id}) = 1
           /\ hasOpportunity(lastCall.before, id) => opportunities = lastCall.before

\* addOpportunity was called for a relation whose Opportunity had left the
\* active status
C23_Witness ==
    /\ lastCall.op = "addOpportunity"
    /\ LET id == join(lastCall.relation.market1.id, lastCall.relation.market2.id)
       IN /\ hasOpportunity(lastCall.before, id)
          /\ Opp(id).status \in {"resolved", "threshold_triggered"}
          /\ Opp(id).leaderResolved \/ Opp(id).thresholdTriggered

\* ------------------------------------------------------------------------
\* Properties of the components driven on their own
\* ------------------------------------------------------------------------
HeldInWindow(t) == \E i \in 1..Len(tradeStore[t.marketId]) : tradeStore[t.marketId][i] = t

\* C24: at every observable state a trade that was added for a market is
\* held in that market's Trade Store window if and only if the current time
\* (the simulated time when set, the wall clock otherwise) minus the trade's
\* timestamp is at most the window size.
C24_WindowHoldsExactlyRecent ==
    \A t \in addedTrades :
        HeldInWindow(t) <=> getCurrentTime - t.timestamp <= baselineWindowMs

IsSortedAscending(arr) == \A i \in 1..(Len(arr) - 1) : arr[i] <= arr[i + 1]

Occurrences(arr, v) == Cardinality({i \in 1..Len(arr) : arr[i] = v})

\* the sizes of the low-price BUY trades of a buffer, counted per size
LowPriceBuyCount(buffer, v) ==
    Cardinality({i \in 1..Len(buffer) : isLowPriceBuy(buffer[i]) /\ buffer[i].sizeUsd = v})

StatSizes == {in.sizeUsd : in \in StatInputs}

\* C25: after every addTrade on a market's Percentile Tracker, the multiset
\* S (lowPriceBuys) is sorted ascending and holds, size for size, exactly
\* the USD sizes of the trades of the FIFO buffer that are BUY with a price
\* below lowPriceThreshold; the buffer holds at most maxSamples trades, and
\* so does S.
C25_SortedSizesMatchBuffer ==
    \A m \in Markets :
        /\ IsSortedAscending(lowPriceBuys[m])
        /\ \A v \in StatSizes :
              Occurrences(lowPriceBuys[m], v) = LowPriceBuyCount(statTrades[m], v)
        /\ \A i \in 1..Len(lowPriceBuys[m]) : lowPriceBuys[m][i] \in StatSizes
        /\ Len(statTrades[m]) <= maxSamples
        /\ Len(lowPriceBuys[m]) <= maxSamples

\* an addTrade on a full buffer pushed out a low-price BUY whose size S held
\* twice, and inserted a low-price BUY below the ones S keeps
C25_Witness ==
    /\ lastCall.op = "addTrade"
    /\ Len(lastCall.before.trades) = maxSamples
    /\ isLowPriceBuy(Head(lastCall.before.trades))
    /\ Occurrences(lastCall.before.lowPriceBuys, Head(lastCall.before.trades).sizeUsd) = 2
    /\ isLowPriceBuy(lastCall.trade)
    /\ lastCall.trade.sizeUsd < lowPriceBuys[lastCall.marketId][Len(lowPriceBuys[lastCall.marketId])]
    /\ Len(lowPriceBuys[lastCall.marketId]) = maxSamples

\* sizes a percentile query is made for
QuerySizes == StatSizes \cup {3}

\* the percentile of query is at least that of other, as fractions smaller / n
PercentileAtLeast(query, other) == query.smaller * other.n >= other.smaller * query.n

\* the last call inserted its trade's size into a non-empty S, and took
\* nothing out of it
InsertedIntoNonEmpty ==
    /\ lastCall.op \in {"addTrade", "detectUnusualLowPriceBuy"}
    /\ lastCall.before.lowPriceBuys # <<>>
    /\ Len(lowPriceBuys[lastCall.marketId]) = Len(lastCall.before.lowPriceBuys) + 1
    /\ lowPriceBuys[lastCall.marketId]
         = insertSorted(lastCall.before.lowPriceBuys, lastCall.trade.sizeUsd)

\* C26 as stated: inserting a value v into a non-empty S never lowers the
\* percentile of a query size q with q >= v.
C26_InsertNeverLowersPercentile ==
    InsertedIntoNonEmpty =>
        \A q \in QuerySizes :
            q >= lastCall.trade.sizeUsd =>
                PercentileAtLeast(getPercentile(lowPriceBuys[lastCall.marketId], q),
                                  getPercentile(lastCall.before.lowPriceBuys, q))

\* C26: inserting a value v into a non-empty S never lowers the percentile
\* of a query size q that is strictly larger than v.
C26_InsertBelowNeverLowersPercentile ==
    InsertedIntoNonEmpty =>
        \A q \in QuerySizes :
            q > lastCall.trade.sizeUsd =>
                PercentileAtLeast(getPercentile(lowPriceBuys[lastCall.marketId], q),
                                  getPercentile(lastCall.before.lowPriceBuys, q))

\* a size was inserted into an S of at least minSamples sizes, and a larger
\* query size, which had a percentile above 0, got a strictly higher one
C26_Witness ==
    /\ InsertedIntoNonEmpty
    /\ Len(lastCall.before.lowPriceBuys) >= minSamples
    /\ \E q \in QuerySizes :
          /\ q > lastCall.trade.sizeUsd
          /\ getPercentile(lastCall.before.lowPriceBuys, q).smaller > 0
          /\ ~PercentileAtLeast(getPercentile(lastCall.before.lowPriceBuys, q),
                                getPercentile(lowPriceBuys[lastCall.marketId], q))

\* C30: every trade handed to the Anomaly Engine, whatever its side and
\* price and whether or not an anomaly results, is in its market's
\* Percentile Tracker buffer (as the newest record) when the percentile
\* query for it is evaluated, so that the query's answer is the one the
\* tracker gives with the trade included.
C30_EveryTradeRecordedBeforeQuery ==
    lastCall.op = "detectUnusualLowPriceBuy" =>
        /\ statTrades[lastCall.marketId] # <<>>
        /\ statTrades[lastCall.marketId][Len(statTrades[lastCall.marketId])] = lastCall.trade
        /\ lastCall.result = shouldAlert(lowPriceBuys[lastCall.marketId],
                                         lastCall.trade.sizeUsd, lastCall.trade.price,
                                         lastCall.trade.side)

\* C27: every Baseline Calculator query (trade-size z-score, volume z-score,
\* price-change z-score, expected volume, volume multiple) returns null for
\* a market whose baseline has fewer than minSamplesForBaseline samples or
\* does not exist.
C27_QueriesNullBelowMinSamples ==
    \A m \in Markets :
        ~isBaselineReady(baselines, m) =>
            /\ tradeSizeZScoreIsNull(baselines, m)
            /\ volumeZScoreIsNull(baselines, m)
            /\ priceChangeZScoreIsNull(baselines, m)
            /\ expectedVolumeIsNull(baselines, m)
            /\ volumeMultipleIsNull(baselines, m)

\* ------------------------------------------------------------------------
\* More properties of the trade path
\* ------------------------------------------------------------------------
AnomalyOrder == <<"UNUSUAL_LOW_PRICE_BUY", "LARGE_TRADE", "VOLUME_SPIKE", "RAPID_PRICE_MOVE">>

\* C28: the anomalies checkAllAnomalies returns for a trade are a
\* subsequence of [UNUSUAL_LOW_PRICE_BUY, LARGE_TRADE, VOLUME_SPIKE,
\* RAPID_PRICE_MOVE], the order in which the four detectors run: the types
\* are of those four and strictly ascend in that order, so that there is at
\* most one anomaly per type.
C28_AnomaliesInDetectorOrder ==
    \A id \in DOMAIN detected :
        /\ \A i \in 1..Len(detected[id]) : indexOf(AnomalyOrder, detected[id][i].type) >= 0
        /\ \A i \in 1..(Len(detected[id]) - 1) :
              indexOf(AnomalyOrder, detected[id][i].type)
                < indexOf(AnomalyOrder, detected[id][i + 1].type)

\* one trade raised three anomalies, the first of them an Unusual Low-Price Buy
C28_Witness ==
    \E id \in DOMAIN detected :
        /\ Len(detected[id]) >= 3
        /\ detected[id][1].type = "UNUSUAL_LOW_PRICE_BUY"

AllStoreIds == UNION {{tradeStore[m][i].id : i \in 1..Len(tradeStore[m])} : m \in Markets}

AllDetectorIds == UNION {{detectorLog[m][i] : i \in 1..Len(detectorLog[m])} : m \in Markets}

\* C29: a trade event that lacks a required field (price, size or side) is
\* dropped: it is not in the Trade Store, was not passed to the detectors
\* and no anomaly of it was handed on as an alert; the complete events,
\* those after it included, are all stored and passed to the detectors.
C29_IncompleteEventIsDropped ==
    /\ \A id \in incomplete :
          /\ id \notin AllStoreIds
          /\ id \notin AllDetectorIds
          /\ \A i \in 1..Len(handed) : handed[i].tradeId # id
    /\ \A id \in 1..(nextTradeId - 1) :
          id \notin incomplete => id \in AllStoreIds /\ id \in AllDetectorIds

\* the StoredAlert the Alert Store makes of an anomaly
StoredAlertOf(anomaly) ==
    [id |-> <<anomaly.marketId, anomaly.type, anomaly.timestamp>>, type |-> anomaly.type,
     marketId |-> anomaly.marketId, severity |-> anomaly.severity,
     timestamp |-> anomaly.timestamp]

\* C31: after every add to the Alert Store the list holds at most maxAlerts
\* entries, the alert just added is at its head and the alerts held before
\* follow it in their order (newest first), only those at the old end having
\* been discarded when the bound was exceeded; totalAlerts has grown by
\* exactly one.
C31_AddKeepsNewestWithinBound ==
    lastCall.op = "addAlert" =>
        LET kept == IF Len(lastCall.before) + 1 > maxAlerts
                    THEN maxAlerts
                    ELSE Len(lastCall.before) + 1
        IN /\ Len(alertStore) <= maxAlerts
           /\ Len(alertStore) = kept
           /\ alertStore[1] = StoredAlertOf(lastCall.anomaly)
           /\ \A i \in 2..kept : alertStore[i] = lastCall.before[i - 1]
           /\ totalAlerts = lastCall.totalBefore + 1

\* an alert was added to a list that already held maxAlerts alerts, and the
\* oldest of them is gone
C31_Witness ==
    /\ lastCall.op = "addAlert"
    /\ Len(lastCall.before) = maxAlerts
    /\ Len(alertStore) = maxAlerts
    /\ alertStore[maxAlerts] = lastCall.before[maxAlerts - 1]
    /\ alertStore[1].timestamp = now

\* C32: handling GET /health, GET /stats or GET /alerts changes no detector
\* or alert state: the hourly alert counter and its reset time, the dedup
\* timestamps, the Alert Store's list and total, and the Alert Store's
\* stored statistics are the same after the request as before it.
C32_GetHandlersChangeNothing ==
    [][GetRequest =>
         UNCHANGED <<alertCount, alertCountResetTime, recentAlerts, alertStore, totalAlerts,
                     alertStats>>]_vars


\* stop() has been called and start() has not been called again: start()
\* alone sets this.running, stop() alone clears it
Stopped == startAt # "idle" /\ ~running

\* C33: once stop() has been called, no step creates a WebSocket and no step
\* schedules a reconnect, wherever start() or a reconnect attempt stood
C33_NoConnectAfterStop ==
    [][Stopped => /\ Len(sockets') = Len(sockets)
                  /\ reconnectTimers' \subseteq reconnectTimers]_vars


\* the sockets that are connecting or open
LiveSockets == {k \in 1..Len(sockets) : sockets[k].state \in {"CONNECTING", "OPEN"}}

\* C39: at any moment at most one socket is connecting or open, and at most
\* one reconnect timer is pending
C39_OneSocketOneReconnectTimer ==
    /\ Cardinality(LiveSockets) <= 1
    /\ Cardinality(reconnectTimers) <= 1

\* a reconnect has replaced a closed socket by a live one
C39_Witness ==
    /\ Len(sockets) >= 2
    /\ LiveSockets = {Len(sockets)}
    /\ sockets[1].state = "CLOSED"


\* C37: every open socket (its 'open' handler runs in the step that opens
\* it) has been sent a subscription for both tokens of every monitored
\* market, however refreshes, closes and reconnects interleave
C37_OpenSocketSubscribedToAll ==
    \A k \in 1..Len(sockets) :
        sockets[k].state = "OPEN" => Tokens(monitoredMarkets) \subseteq sockets[k].subscribed

\* a reconnected socket is open and subscribed to a token the first socket
\* never was: a refresh added the market while no socket was open
C37_Witness ==
    \E k \in 2..Len(sockets) :
        /\ sockets[k].state = "OPEN"
        /\ sockets[1].state = "CLOSED"
        /\ ~(sockets[k].subscribed \subseteq sockets[1].subscribed)
        /\ sockets[k].monitoredAtOpen = monitoredMarkets


\* C38: for every Opportunity leaderResolved is set exactly when its status
\* is resolved, thresholdTriggered is set whenever its status is
\* threshold_triggered, and getActiveOpportunities returns it only if it is
\* neither resolved nor threshold-triggered, by flag and by status
C38_FlagsAgreeWithStatus ==
    /\ \A i \in 1..Len(opportunities) :
          /\ opportunities[i].leaderResolved <=> opportunities[i].status = "resolved"
          /\ opportunities[i].status = "threshold_triggered" =>
                opportunities[i].thresholdTriggered
    /\ \A i \in 1..Len(getActiveOpportunities(opportunities)) :
          LET o == getActiveOpportunities(opportunities)[i]
          IN /\ ~o.leaderResolved
             /\ ~o.thresholdTriggered
             /\ o.status \notin {"resolved", "threshold_triggered"}


\* the Opportunities tracked for the unordered pair of o's markets
OpportunitiesOfPair(o) ==
    {i \in 1..Len(opportunities) :
        canonicalPairId(opportunities[i].relation.market1.id,
                        opportunities[i].relation.market2.id)
        = canonicalPairId(o.relation.market1.id, o.relation.market2.id)}

\* C36: over all scans at most one Opportunity is tracked per unordered pair
\* of markets, whatever the order of the two markets in their cluster; each
\* Opportunity entered is notified once, so this bounds the new-opportunity
\* notifications of the pair as well
C36_OneOpportunityPerPair ==
    \A i \in 1..Len(opportunities) : Cardinality(OpportunitiesOfPair(opportunities[i])) = 1


\* the trades of market m in which no detector found an anomaly and which lie
\* within the baseline window
QuietTradesInWindow(m) ==
    {i \in 1..Len(tradeStore[m]) :
        /\ detected[tradeStore[m][i].id] = <<>>
        /\ tradeStore[m][i].timestamp >= now - baselineWindowMs}

\* C35: in the running detector the sampleCount of a market's baseline is the
\* number of its non-anomalous trades within the baseline window, so that
\* minSamplesForBaseline of them make the baseline ready
C35_SampleCountCountsQuietTrades ==
    \A m \in Markets :
        QuietTradesInWindow(m) # {} =>
            /\ m \in DOMAIN baselines
            /\ baselines[m].sampleCount = Cardinality(QuietTradesInWindow(m))


\* Opportunity id is active and its leader, neither resolved nor closed,
\* reports a YES price at or above the near-certainty threshold
LeaderNearCertain(id) ==
    /\ \E i \in 1..Len(opportunities) :
          opportunities[i].id = id /\ opportunities[i].status = "active"
    /\ id \notin marketResolved
    /\ leaderYesPrice[id] >= NEAR_CERTAINTY_THRESHOLD

\* Opportunity id is threshold_triggered and its NEAR_CERTAINTY event was
\* handed to the Notifier
ThresholdNoticed(id) ==
    /\ \E i \in 1..Len(opportunities) :
          opportunities[i].id = id /\ opportunities[i].status = "threshold_triggered"
    /\ EventCount("NEAR_CERTAINTY", id) >= 1

\* C34: in the running service an active Opportunity whose leader stays
\* unresolved at a YES price of 0.90 or more becomes threshold_triggered,
\* with a NEAR_CERTAINTY event, once the Leader Monitor's period comes round
C34_NearCertaintyIsNoticed ==
    \A id \in OppIds :
        LeaderNearCertain(id) ~> (ThresholdNoticed(id) \/ ~LeaderNearCertain(id))

====
